---- MODULE Spec2Model ----
(***************************************************************************)
(* State-machine model of the NexusTrading bot core:                       *)
(*   LearningEngine          (src/ict_strategy.py)                         *)
(*   ICTProductionEngine     (src/ict_strategy.py)                         *)
(*   ExecutionTimeframeSelector (src/execution_timeframe_selector.py)      *)
(*   SMTDetector             (src/smt_detector.py)                         *)
(*                                                                         *)
(* Number representation.  The program computes on floats; the model      *)
(* computes on integers in fixed units, i.e. it models the real-number     *)
(* arithmetic the floats approximate:                                      *)
(*   prices                      : integer points (all inputs are even,    *)
(*                                 so (high+low)/2 is exact)               *)
(*   confidence_multiplier       : thousandths   (1.0   = 1000)            *)
(*   ml_confidence               : hundredths    (0.70  = 70)              *)
(*   risk (percent)              : 1/10000       (0.8   = 8000)            *)
(*   feature weights             : hundredths    (0.30  = 30)              *)
(*   sub-scores                  : 1/10000       (1.0   = 10000)           *)
(*   quality score               : millionths    (0.60  = 600000)          *)
(* The 'time' field of an observation and of a sweep (time.time()) is      *)
(* written but never read by the program and is left out.                  *)
(***************************************************************************)
EXTENDS Integers, Sequences, FiniteSets, TLC

VARIABLES
    learning_engine,  \* LearningEngine fields
    ets,              \* ExecutionTimeframeSelector fields
    engine,           \* ICTProductionEngine fields (without its components)
    call,             \* the latest public call: its name and arguments
    result,           \* what that call returned or raised
    steps,            \* number of state-growing calls made since Init
    sel_in,           \* arguments of a direct select_best_setup call
    smt_detector,     \* SMTDetector fields
    smt_in,           \* arguments of a direct analyze_divergence call
    race,             \* two threads inside the engine: where each one is, and
                      \* the locals of its frame
    score_in,         \* arguments of a direct _calculate_quality_score call
    mt5_manager,      \* MT5Manager fields (src/app.py)
    mt5_threads       \* the poller and the /api/login requests: where each
                      \* thread is, and the locals of its frame

vars == <<learning_engine, ets, engine, call, result, steps, sel_in,
          smt_detector, smt_in, race, score_in, mt5_manager, mt5_threads>>

----------------------------------------------------------------------------
(* Bounds of the model *)

MaxTicks == 3
MaxOutcomes == 3

----------------------------------------------------------------------------
(* Arithmetic helpers *)

Abs(x) == IF x < 0 THEN -x ELSE x
max2(a, b) == IF a >= b THEN a ELSE b
min2(a, b) == IF a <= b THEN a ELSE b
SetMax(S) == CHOOSE x \in S : \A y \in S : y <= x
SetMin(S) == CHOOSE x \in S : \A y \in S : x <= y
Range(s) == {s[i] : i \in DOMAIN s}
\* s[-n:] of Python
LastN(s, n) == IF Len(s) <= n THEN s ELSE SubSeq(s, Len(s) - n + 1, Len(s))

NoneResult == [kind |-> "None"]

----------------------------------------------------------------------------
(* LearningEngine *)

LearningEngine_init ==
    [ performance_history |-> <<>>,
      feature_weights |-> [ displacement      |-> 30,
                            fvg_efficiency    |-> 20,
                            rr_score          |-> 25,
                            volatility_adj    |-> 10,
                            structure_clarity |-> 15 ],
      confidence_multiplier |-> 1000 ]

record_outcome_mut_noclamp(le, setup_features, outcome) ==
    LET adjustment == IF outcome = "WIN" THEN 5 ELSE -5
    IN  [ le EXCEPT
            !.performance_history =
                Append(@, [features |-> setup_features, outcome |-> outcome]),
            !.confidence_multiplier = @ + (adjustment * 4) ]

record_outcome_mut_weights(le, setup_features, outcome) ==
    LET adjustment == IF outcome = "WIN" THEN 5 ELSE -5
    IN  [ le EXCEPT
            !.performance_history =
                Append(@, [features |-> setup_features, outcome |-> outcome]),
            !.feature_weights.displacement = @ + adjustment,
            !.confidence_multiplier = max2(500, min2(1500, @ + (adjustment * 4))) ]

\* the state after record_outcome(setup_features, outcome)
record_outcome(le, setup_features, outcome) ==
    LET adjustment == IF outcome = "WIN" THEN 5 ELSE -5
    IN  [ le EXCEPT
            !.performance_history =
                Append(@, [features |-> setup_features, outcome |-> outcome]),
            !.confidence_multiplier = max2(500, min2(1500, @ + (adjustment * 4))) ]

\* the dict record_outcome returns (the log string is telemetry)
record_outcome_ret(le) ==
    [kind |-> "outcome", new_confidence |-> le.confidence_multiplier]

get_adaptive_risk_mut_noclamp(le, ml_confidence) ==
    LET risk == IF ml_confidence < 70 THEN 1
                ELSE IF ml_confidence < 85 THEN 4
                ELSE 8
    IN  risk * le.confidence_multiplier

get_adaptive_risk_mut_tier(le, ml_confidence) ==
    LET risk == IF ml_confidence <= 70 THEN 1
                ELSE IF ml_confidence < 85 THEN 4
                ELSE 8
        final_risk == risk * le.confidence_multiplier
    IN  max2(1000, min2(8000, final_risk))

get_adaptive_risk(le, ml_confidence) ==
    LET risk == IF ml_confidence < 70 THEN 1
                ELSE IF ml_confidence < 85 THEN 4
                ELSE 8
        final_risk == risk * le.confidence_multiplier
    IN  max2(1000, min2(8000, final_risk))

----------------------------------------------------------------------------
(* ICTProductionEngine: construction and the data layer *)

Timeframes == {1, 2, 3, 4, 5, 15}
max_history == 200
htf_window == 20
ets_min_bars == 10

Obs(price) == [price |-> price, high |-> price, low |-> price, close |-> price]

NoSweep == [type |-> "None", price |-> 0, aggression |-> [num |-> 0, den |-> 1]]

ExecutionTimeframeSelector_init(weights) ==
    [weights |-> weights, min_quality_score |-> 600000]

ICTProductionEngine_init ==
    [ mtf_history   |-> [tf \in Timeframes |-> <<>>],
      dealing_range |-> [high |-> 0, low |-> 0, eq |-> 0],
      bias          |-> "None",
      active_sweep  |-> NoSweep,
      mss_detected  |-> FALSE,
      fvg_zone      |-> "None" ]

_update_htf_structure_mut_all(eng) ==
    IF Len(eng.mtf_history[15]) < htf_window THEN eng
    ELSE
      LET prices == {p.price : p \in Range(eng.mtf_history[15])}
          high == SetMax(prices)
          low == SetMin(prices)
          eq == (high + low) \div 2
          current_price == eng.mtf_history[15][Len(eng.mtf_history[15])].price
      IN  [ eng EXCEPT
              !.dealing_range = [high |-> high, low |-> low, eq |-> eq],
              !.bias = IF current_price > eq THEN "PREMIUM" ELSE "DISCOUNT" ]

_update_htf_structure(eng) ==
    IF Len(eng.mtf_history[15]) < htf_window THEN eng
    ELSE
      LET prices == {p.price : p \in Range(LastN(eng.mtf_history[15], htf_window))}
          high == SetMax(prices)
          low == SetMin(prices)
          eq == (high + low) \div 2
          current_price == eng.mtf_history[15][Len(eng.mtf_history[15])].price
      IN  [ eng EXCEPT
              !.dealing_range = [high |-> high, low |-> low, eq |-> eq],
              !.bias = IF current_price > eq THEN "PREMIUM" ELSE "DISCOUNT" ]

update_data_mut_poplast(eng, price, timeframe) ==
    IF timeframe \in DOMAIN eng.mtf_history
    THEN LET appended == Append(eng.mtf_history[timeframe], Obs(price))
             kept == IF Len(appended) > max_history
                     THEN SubSeq(appended, 1, Len(appended) - 1)
                     ELSE appended
             e1 == [eng EXCEPT !.mtf_history[timeframe] = kept]
         IN  IF timeframe = 15 THEN _update_htf_structure(e1) ELSE e1
    ELSE eng

update_data_mut_anytf(eng, price, timeframe) ==
    LET tf == IF timeframe \in DOMAIN eng.mtf_history THEN timeframe ELSE 1
        appended == Append(eng.mtf_history[tf], Obs(price))
        kept == IF Len(appended) > max_history THEN Tail(appended) ELSE appended
        e1 == [eng EXCEPT !.mtf_history[tf] = kept]
    IN  _update_htf_structure(e1)

update_data_mut_expire(eng, price, timeframe) ==
    IF timeframe \in DOMAIN eng.mtf_history
    THEN LET appended == Append(eng.mtf_history[timeframe], Obs(price))
             kept == IF Len(appended) > max_history THEN Tail(appended) ELSE appended
             e1 == [eng EXCEPT !.mtf_history[timeframe] = kept]
         IN  IF timeframe = 15
             THEN [_update_htf_structure(e1) EXCEPT !.active_sweep = NoSweep]
             ELSE e1
    ELSE eng

update_data(eng, price, timeframe) ==
    IF timeframe \in DOMAIN eng.mtf_history
    THEN LET appended == Append(eng.mtf_history[timeframe], Obs(price))
             kept == IF Len(appended) > max_history THEN Tail(appended) ELSE appended
             e1 == [eng EXCEPT !.mtf_history[timeframe] = kept]
         IN  IF timeframe = 15 THEN _update_htf_structure(e1) ELSE e1
    ELSE eng

----------------------------------------------------------------------------
(* ExecutionTimeframeSelector.  A DataFrame is the sequence of its rows;    *)
(* mtf_data is the sequence of the dict's items <<tf, df>> in insertion     *)
(* order.  Prices handed to the selector are positive.                      *)
(*   tp, fvg_top, fvg_bottom : thousandths of a point (last * 1.02 etc.)    *)
(*   displacement_mag        : the exact ratio num / den                    *)

NoSetup == [type |-> "None"]

\* np.clip(a / b, 0, 1) in 1/10000, for a >= 0, b > 0 (a, b < 2^31 / 100)
Clip01(a, b) ==
    IF a >= b THEN 10000
    ELSE LET q1 == (a * 100) \div b
             r1 == (a * 100) % b
         IN  q1 * 100 + (r1 * 100) \div b

\* np.clip(a / (10000 * b), 0, 1) in 1/10000, for a >= 0, b >= 0;
\* a / 0 is numpy's inf, which clips to 1
Clip01E4(a, b) ==
    IF b = 0 \/ a >= 10000 * b THEN 10000 ELSE a \div b

_validate_tf_structure_mut_nonstrict(df, bias, sweep_extreme) ==
    IF Len(df) < 10 THEN NoSetup
    ELSE
      LET last_price == df[Len(df)].close
          is_buy == (bias = "DISCOUNT")
          prev4 == SubSeq(df, Len(df) - 4, Len(df) - 1)
          mss_detected ==
              IF is_buy
              THEN last_price >= SetMax({r.high : r \in Range(prev4)})
              ELSE last_price <= SetMin({r.low : r \in Range(prev4)})
          fvg_present == TRUE
      IN  IF mss_detected /\ fvg_present
          THEN [ type       |-> IF is_buy THEN "BUY" ELSE "SELL",
                 entry      |-> last_price,
                 sl         |-> sweep_extreme,
                 tp         |-> last_price * (IF is_buy THEN 1020 ELSE 980),
                 fvg_top    |-> last_price * 1001,
                 fvg_bottom |-> last_price * 999,
                 displacement_mag |->
                     [ num |-> Abs(last_price - df[Len(df) - 4].close) * 1000,
                       den |-> last_price ] ]
          ELSE NoSetup

_validate_tf_structure(df, bias, sweep_extreme) ==
    IF Len(df) < 10 THEN NoSetup
    ELSE
      LET last_price == df[Len(df)].close
          is_buy == (bias = "DISCOUNT")
          prev4 == SubSeq(df, Len(df) - 4, Len(df) - 1)
          mss_detected ==
              IF is_buy
              THEN last_price > SetMax({r.high : r \in Range(prev4)})
              ELSE last_price < SetMin({r.low : r \in Range(prev4)})
          fvg_present == TRUE
      IN  IF mss_detected /\ fvg_present
          THEN [ type       |-> IF is_buy THEN "BUY" ELSE "SELL",
                 entry      |-> last_price,
                 sl         |-> sweep_extreme,
                 tp         |-> last_price * (IF is_buy THEN 1020 ELSE 980),
                 fvg_top    |-> last_price * 1001,
                 fvg_bottom |-> last_price * 999,
                 displacement_mag |->
                     [ num |-> Abs(last_price - df[Len(df) - 4].close) * 1000,
                       den |-> last_price ] ]
          ELSE NoSetup

\* df['close'].pct_change().std() * 100 < 0.05: the sample standard deviation
\* (ddof = 1) of the bar-to-bar returns is below 0.0005.  Returns are taken
\* in units of 1/100000, so the test is  n*Sum(R^2) - Sum(R)^2 < 50^2*n*(n-1).
RECURSIVE SumSeq(_)
SumSeq(s) == IF s = <<>> THEN 0 ELSE s[1] + SumSeq(Tail(s))

low_volatility(df) ==
    LET n == Len(df) - 1
        R == [i \in 1..n |->
                ((df[i + 1].close - df[i].close) * 100000) \div df[i].close]
        s1 == SumSeq(R)
        s2 == SumSeq([i \in 1..n |-> R[i] * R[i]])
    IN  n >= 2 /\ n * s2 - s1 * s1 < 2500 * n * (n - 1)

_calculate_quality_score_mut_fvg(weights, setup, df) ==
    LET mag == setup.displacement_mag
        disp_score == Clip01(mag.num, 2 * mag.den)
        fvg_size == Abs(setup.fvg_top - setup.fvg_bottom)
        fvg_eff == Clip01E4(fvg_size * mag.den, mag.num)
        risk == Abs(setup.entry - setup.sl)
        reward == Abs(setup.tp - setup.entry * 1000)
        rr_score == IF risk > 0 THEN Clip01(reward, 3000 * risk) ELSE 0
        low_vol == low_volatility(df)
        vol_adj == IF setup.tf >= 3 /\ low_vol THEN 8000
                   ELSE IF setup.tf = 1 /\ low_vol THEN 2000
                   ELSE 5000
        clarity == 8000
    IN  weights.displacement * disp_score
        + weights.fvg_efficiency * fvg_eff
        + weights.rr_score * rr_score
        + weights.volatility_adj * vol_adj
        + weights.structure_clarity * clarity

\* setup carries 'tf'; the result is the weighted sum in millionths
_calculate_quality_score(weights, setup, df) ==
    LET mag == setup.displacement_mag
        disp_score == Clip01(mag.num, 2 * mag.den)
        fvg_size == Abs(setup.fvg_top - setup.fvg_bottom)
        fvg_eff == 10000 - Clip01E4(fvg_size * mag.den, mag.num)
        risk == Abs(setup.entry - setup.sl)
        reward == Abs(setup.tp - setup.entry * 1000)
        rr_score == IF risk > 0 THEN Clip01(reward, 3000 * risk) ELSE 0
        low_vol == low_volatility(df)
        vol_adj == IF setup.tf >= 3 /\ low_vol THEN 8000
                   ELSE IF setup.tf = 1 /\ low_vol THEN 2000
                   ELSE 5000
        clarity == 8000
    IN  weights.displacement * disp_score
        + weights.fvg_efficiency * fvg_eff
        + weights.rr_score * rr_score
        + weights.volatility_adj * vol_adj
        + weights.structure_clarity * clarity

_apply_confluence_bonus(setups) ==
    [ i \in 1..Len(setups) |->
        LET s1 == setups[i]
            nesting == { j \in 1..Len(setups) :
                           /\ j # i
                           /\ s1.fvg_bottom >= setups[j].fvg_bottom
                           /\ s1.fvg_top <= setups[j].fvg_top }
            confluence_bonus == 150000 * Cardinality(nesting)
        IN  [ type |-> s1.type, entry |-> s1.entry, sl |-> s1.sl, tp |-> s1.tp,
              fvg_top |-> s1.fvg_top, fvg_bottom |-> s1.fvg_bottom,
              displacement_mag |-> s1.displacement_mag, tf |-> s1.tf,
              confluence_score |-> confluence_bonus,
              score |-> min2(s1.score + confluence_bonus, 1000000) ] ]

\* the setups of the loop of select_best_setup, in iteration order
scored_setups(sel, mtf_data, htf_bias, htf_sweep_extreme) ==
    LET one(item) ==
            LET setup == _validate_tf_structure(item.df, htf_bias, htf_sweep_extreme)
            IN  IF setup = NoSetup THEN NoSetup
                ELSE LET with_tf ==
                           [ type |-> setup.type, entry |-> setup.entry,
                             sl |-> setup.sl, tp |-> setup.tp,
                             fvg_top |-> setup.fvg_top,
                             fvg_bottom |-> setup.fvg_bottom,
                             displacement_mag |-> setup.displacement_mag,
                             tf |-> item.tf ]
                     IN  [ type |-> setup.type, entry |-> setup.entry,
                           sl |-> setup.sl, tp |-> setup.tp,
                           fvg_top |-> setup.fvg_top,
                           fvg_bottom |-> setup.fvg_bottom,
                           displacement_mag |-> setup.displacement_mag,
                           tf |-> item.tf,
                           score |-> _calculate_quality_score(sel.weights, with_tf, item.df) ]
        all == [i \in 1..Len(mtf_data) |-> one(mtf_data[i])]
    IN  SelectSeq(all, LAMBDA s : s # NoSetup)

first_max_mut_min(setups) ==
    LET bottom == SetMin({setups[i].score : i \in 1..Len(setups)})
        i == CHOOSE k \in 1..Len(setups) : setups[k].score = bottom
    IN  setups[i]

first_max_mut_last(setups) ==
    LET top == SetMax({setups[i].score : i \in 1..Len(setups)})
        i == CHOOSE k \in 1..Len(setups) :
                 /\ setups[k].score = top
                 /\ \A j \in (k + 1)..Len(setups) : setups[j].score < top
    IN  setups[i]

\* max(valid_setups, key=score): the first element with the greatest score
first_max(setups) ==
    LET top == SetMax({setups[i].score : i \in 1..Len(setups)})
        i == CHOOSE k \in 1..Len(setups) :
                 /\ setups[k].score = top
                 /\ \A j \in 1..(k - 1) : setups[j].score < top
    IN  setups[i]

select_best_setup(sel, mtf_data, htf_bias, htf_sweep_extreme) ==
    LET valid_setups == scored_setups(sel, mtf_data, htf_bias, htf_sweep_extreme)
    IN  IF valid_setups = <<>> THEN NoSetup
        ELSE LET best_setup == first_max(_apply_confluence_bonus(valid_setups))
             IN  IF best_setup.score >= sel.min_quality_score
                 THEN best_setup
                 ELSE NoSetup

----------------------------------------------------------------------------
(* SMTDetector.  A DataFrame is the sequence of its rows; a pivot carries   *)
(* the row's 0-based position, as df.iloc does.                             *)
(*   strength_score       : 1/10000                                         *)
(*   time_alignment_score : the exact ratio num / den                       *)

SMTDetector_init(pivot_window, tolerance) ==
    [ pivot_window     |-> pivot_window,
      tolerance        |-> tolerance,
      primary_swings   |-> [highs |-> <<>>, lows |-> <<>>],
      secondary_swings |-> [highs |-> <<>>, lows |-> <<>>] ]

\* range(pivot_window, len(df) - pivot_window), as 1-based row numbers
pivot_rows(smt, df) ==
    LET first == smt.pivot_window + 1
        last == Len(df) - smt.pivot_window
    IN  IF last < first THEN <<>> ELSE [k \in 1..(last - first + 1) |-> first + k - 1]

detect_fractal_pivots_mut_edge(smt, df) ==
    LET w == smt.pivot_window
        rows == [k \in 1..Len(df) |-> k]
        window(k) == {df[j] : j \in max2(1, k - w)..min2(Len(df), k + w)}
        is_high(k) == df[k].high = SetMax({r.high : r \in window(k)})
        is_low(k) == df[k].low = SetMin({r.low : r \in window(k)})
        hs == SelectSeq(rows, is_high)
        ls == SelectSeq(rows, is_low)
    IN  [ highs |-> [n \in 1..Len(hs) |-> [price |-> df[hs[n]].high, index |-> hs[n] - 1]],
          lows  |-> [n \in 1..Len(ls) |-> [price |-> df[ls[n]].low, index |-> ls[n] - 1]] ]

detect_fractal_pivots(smt, df) ==
    LET w == smt.pivot_window
        rows == pivot_rows(smt, df)
        window(k) == {df[j] : j \in (k - w)..(k + w)}
        is_high(k) == df[k].high = SetMax({r.high : r \in window(k)})
        is_low(k) == df[k].low = SetMin({r.low : r \in window(k)})
        hs == SelectSeq(rows, is_high)
        ls == SelectSeq(rows, is_low)
    IN  [ highs |-> [n \in 1..Len(hs) |-> [price |-> df[hs[n]].high, index |-> hs[n] - 1]],
          lows  |-> [n \in 1..Len(ls) |-> [price |-> df[ls[n]].low, index |-> ls[n] - 1]] ]

_empty_result ==
    [ smt_type                  |-> "None",
      strength_score            |-> 0,
      swing_reference_primary   |-> 0,
      swing_reference_secondary |-> 0,
      time_alignment_score      |-> [num |-> 0, den |-> 1],
      liquidity_context_valid   |-> FALSE ]

atr_period == 14

\* tr.rolling(period).mean().iloc[-1] as the pair <<sum of the last `period`
\* true ranges, period>>; sum = 0 also stands for NaN (fewer rows than the
\* period), which like 0 fails the test atr > 0
_calculate_atr(df) ==
    LET tr(k) == IF k = 1 THEN df[k].high - df[k].low
                 ELSE max2(df[k].high - df[k].low,
                           max2(Abs(df[k].high - df[k - 1].close),
                                Abs(df[k].low - df[k - 1].close)))
    IN  IF Len(df) < atr_period THEN [sum |-> 0, period |-> atr_period]
        ELSE [ sum |-> SumSeq([k \in 1..atr_period |-> tr(Len(df) - atr_period + k)]),
               period |-> atr_period ]

\* abs(price - level) < price * 0.0005 for some level of context['levels']
_check_liquidity_proximity(price, context) ==
    \E n \in 1..Len(context.levels) : Abs(price - context.levels[n]) * 2000 < price

_build_result(smt, smt_type, p_pivot, s_pivot, df, context) ==
    LET atr == _calculate_atr(df)
        strength == IF atr.sum > 0
                    THEN Clip01(Abs(p_pivot.price - s_pivot.price) * atr.period, atr.sum)
                    ELSE 0
        valid_context == _check_liquidity_proximity(p_pivot.price, context)
    IN  [ smt_type                  |-> smt_type,
          strength_score            |-> strength,
          swing_reference_primary   |-> p_pivot.price,
          swing_reference_secondary |-> s_pivot.price,
          time_alignment_score      |->
              [ num |-> smt.tolerance - Abs(p_pivot.index - s_pivot.index),
                den |-> smt.tolerance ],
          liquidity_context_valid   |-> valid_context ]

analyze_divergence_mut_onepivot(smt, primary_df, secondary_df, liquidity_context) ==
    LET p_pivots == detect_fractal_pivots(smt, primary_df)
        s_pivots == detect_fractal_pivots(smt, secondary_df)
        two(seq) == Len(seq) >= 1
        \* seq[-2:] of a list of two or more: the prior one, then the latest
        h2(seq) == seq[max2(1, Len(seq) - 1)]
        h1(seq) == seq[Len(seq)]
        ph == p_pivots.highs
        sh == s_pivots.highs
        pl == p_pivots.lows
        sl == s_pivots.lows
    IN  IF ph = <<>> \/ sh = <<>> THEN _empty_result
        ELSE IF /\ two(ph) /\ two(sh)
                /\ h1(ph).price > h2(ph).price
                /\ h1(sh).price <= h2(sh).price
                /\ Abs(h1(ph).index - h1(sh).index) <= smt.tolerance
        THEN _build_result(smt, "bearish", h1(ph), h1(sh), primary_df, liquidity_context)
        ELSE IF /\ two(pl) /\ two(sl)
                /\ h1(pl).price < h2(pl).price
                /\ h1(sl).price >= h2(sl).price
                /\ Abs(h1(pl).index - h1(sl).index) <= smt.tolerance
        THEN _build_result(smt, "bullish", h1(pl), h1(sl), primary_df, liquidity_context)
        ELSE _empty_result

analyze_divergence_mut_noalign(smt, primary_df, secondary_df, liquidity_context) ==
    LET p_pivots == detect_fractal_pivots(smt, primary_df)
        s_pivots == detect_fractal_pivots(smt, secondary_df)
        two(seq) == Len(seq) >= 2
        \* seq[-2:] of a list of two or more: the prior one, then the latest
        h2(seq) == seq[Len(seq) - 1]
        h1(seq) == seq[Len(seq)]
        ph == p_pivots.highs
        sh == s_pivots.highs
        pl == p_pivots.lows
        sl == s_pivots.lows
    IN  IF ph = <<>> \/ sh = <<>> THEN _empty_result
        ELSE IF /\ two(ph) /\ two(sh)
                /\ h1(ph).price > h2(ph).price
                /\ h1(sh).price <= h2(sh).price
        THEN _build_result(smt, "bearish", h1(ph), h1(sh), primary_df, liquidity_context)
        ELSE IF /\ two(pl) /\ two(sl)
                /\ h1(pl).price < h2(pl).price
                /\ h1(sl).price >= h2(sl).price
        THEN _build_result(smt, "bullish", h1(pl), h1(sl), primary_df, liquidity_context)
        ELSE _empty_result

analyze_divergence_mut_bullfirst(smt, primary_df, secondary_df, liquidity_context) ==
    LET p_pivots == detect_fractal_pivots(smt, primary_df)
        s_pivots == detect_fractal_pivots(smt, secondary_df)
        two(seq) == Len(seq) >= 2
        h2(seq) == seq[Len(seq) - 1]
        h1(seq) == seq[Len(seq)]
        ph == p_pivots.highs
        sh == s_pivots.highs
        pl == p_pivots.lows
        sl == s_pivots.lows
    IN  IF ph = <<>> \/ sh = <<>> THEN _empty_result
        ELSE IF /\ two(pl) /\ two(sl)
                /\ h1(pl).price < h2(pl).price
                /\ h1(sl).price >= h2(sl).price
                /\ Abs(h1(pl).index - h1(sl).index) <= smt.tolerance
        THEN _build_result(smt, "bullish", h1(pl), h1(sl), primary_df, liquidity_context)
        ELSE IF /\ two(ph) /\ two(sh)
                /\ h1(ph).price > h2(ph).price
                /\ h1(sh).price <= h2(sh).price
                /\ Abs(h1(ph).index - h1(sh).index) <= smt.tolerance
        THEN _build_result(smt, "bearish", h1(ph), h1(sh), primary_df, liquidity_context)
        ELSE _empty_result

analyze_divergence(smt, primary_df, secondary_df, liquidity_context) ==
    LET p_pivots == detect_fractal_pivots(smt, primary_df)
        s_pivots == detect_fractal_pivots(smt, secondary_df)
        two(seq) == Len(seq) >= 2
        \* seq[-2:] of a list of two or more: the prior one, then the latest
        h2(seq) == seq[Len(seq) - 1]
        h1(seq) == seq[Len(seq)]
        ph == p_pivots.highs
        sh == s_pivots.highs
        pl == p_pivots.lows
        sl == s_pivots.lows
    IN  IF ph = <<>> \/ sh = <<>> THEN _empty_result
        ELSE IF /\ two(ph) /\ two(sh)
                /\ h1(ph).price > h2(ph).price
                /\ h1(sh).price <= h2(sh).price
                /\ Abs(h1(ph).index - h1(sh).index) <= smt.tolerance
        THEN _build_result(smt, "bearish", h1(ph), h1(sh), primary_df, liquidity_context)
        ELSE IF /\ two(pl) /\ two(sl)
                /\ h1(pl).price < h2(pl).price
                /\ h1(sl).price >= h2(sl).price
                /\ Abs(h1(pl).index - h1(sl).index) <= smt.tolerance
        THEN _build_result(smt, "bullish", h1(pl), h1(sl), primary_df, liquidity_context)
        ELSE _empty_result

----------------------------------------------------------------------------
(* ICTProductionEngine: the rule engine *)

\* ict_strategy.py uses the name pd (pd.DataFrame) and imports no pandas:
\* evaluating pd raises NameError
pd_is_bound == FALSE

_check_sweeps_mut_noguard(eng, price) ==
    IF price > eng.dealing_range.high THEN "BUY_SIDE"
    ELSE IF price < eng.dealing_range.low THEN "SELL_SIDE"
    ELSE "None"

_check_sweeps_mut_nonstrict(eng, price) ==
    IF eng.dealing_range.high > 0 /\ price >= eng.dealing_range.high THEN "BUY_SIDE"
    ELSE IF eng.dealing_range.low > 0 /\ price <= eng.dealing_range.low THEN "SELL_SIDE"
    ELSE "None"

_check_sweeps(eng, price) ==
    IF eng.dealing_range.high > 0 /\ price > eng.dealing_range.high THEN "BUY_SIDE"
    ELSE IF eng.dealing_range.low > 0 /\ price < eng.dealing_range.low THEN "SELL_SIDE"
    ELSE "None"

\* abs(price - level) / (price * 0.001), as the exact ratio num / den;
\* the division raises ZeroDivisionError when price * 0.001 is 0
_calculate_sweep_aggression(eng, price, sweep_type) ==
    LET level == IF sweep_type = "BUY_SIDE" THEN eng.dealing_range.high
                 ELSE eng.dealing_range.low
    IN  [num |-> Abs(price - level) * 1000, den |-> price]

\* rnd is the outcome of random.random() > 0.6
_evaluate_smt(eng, rnd) ==
    IF eng.active_sweep # NoSweep
    THEN IF eng.active_sweep.type = "BUY_SIDE" /\ rnd THEN "bearish"
         ELSE IF eng.active_sweep.type = "SELL_SIDE" /\ rnd THEN "bullish"
         ELSE "None"
    ELSE "None"

_reset_state(eng) ==
    [eng EXCEPT !.active_sweep = NoSweep, !.mss_detected = FALSE, !.fvg_zone = "None"]

\* the dict mtf_dfs built by detect_setup, as its items in insertion order
mtf_dfs_of(eng) ==
    LET tfs == SelectSeq(<<1, 2, 3, 4, 5>>,
                         LAMBDA tf : Len(eng.mtf_history[tf]) >= ets_min_bars)
    IN  [i \in 1..Len(tfs) |-> [tf |-> tfs[i], df |-> eng.mtf_history[tfs[i]]]]

\* self.active_sweep = {...}: a detected sweep becomes the active one
record_sweep_mut_keep(eng, current_price, sweep) ==
    IF eng.active_sweep # NoSweep THEN eng
    ELSE [eng EXCEPT !.active_sweep =
            [ type |-> sweep,
              price |-> current_price,
              aggression |-> _calculate_sweep_aggression(eng, current_price, sweep) ]]

record_sweep(eng, current_price, sweep) ==
    [eng EXCEPT !.active_sweep =
        [ type |-> sweep,
          price |-> current_price,
          aggression |-> _calculate_sweep_aggression(eng, current_price, sweep) ]]

\* detect_setup(current_price, secondary_price): the engine after the call and
\* what the call returned or raised.  secondary_price = 0 stands for None.
detect_setup(eng, sel, current_price, secondary_price, rnd) ==
    LET sweep == _check_sweeps(eng, current_price)
    IN  IF sweep # "None"
        THEN IF current_price = 0
             THEN \* _calculate_sweep_aggression divides by price * 0.001
                  [eng |-> eng,
                   result |-> [kind |-> "raise", error |-> "ZeroDivisionError"]]
             ELSE LET e1 == record_sweep(eng, current_price, sweep)
                      smt_type == IF secondary_price # 0
                                  THEN _evaluate_smt(e1, rnd) ELSE "None"
                  IN  [eng |-> e1,
                       result |-> [kind |-> "log", sweep |-> sweep, smt |-> smt_type]]
        ELSE IF eng.active_sweep # NoSweep
        THEN LET mtf_dfs == mtf_dfs_of(eng)
             IN  IF mtf_dfs # <<>> /\ ~pd_is_bound
                 THEN \* pd.DataFrame(...) for the first timeframe with 10 bars
                      [eng |-> eng,
                       result |-> [kind |-> "raise", error |-> "NameError"]]
                 ELSE IF mtf_dfs # <<>>
                 THEN LET best_setup == select_best_setup(sel, mtf_dfs, eng.bias,
                                                          eng.active_sweep.price)
                      IN  IF best_setup # NoSetup
                          THEN [eng |-> _reset_state(eng),
                                result |-> [ kind |-> "action",
                                             action |-> best_setup.type,
                                             tf |-> best_setup.tf,
                                             score |-> best_setup.score,
                                             setup |-> best_setup ]]
                          ELSE [eng |-> eng, result |-> NoneResult]
                 ELSE [eng |-> eng, result |-> NoneResult]
        ELSE [eng |-> eng, result |-> NoneResult]

----------------------------------------------------------------------------
(* MT5Manager (src/app.py).                                                 *)
(*   account_info : "None", or "info" for the dict read from the terminal   *)
(*   logs         : the number of entries; the texts are written and never  *)
(*                  read by the manager                                     *)
(*   lock         : "free", or the name of the thread that holds it         *)
(*   credentials  : {} (empty), or the dict stored by login(), of which the *)
(*                  model keeps whether int() accepts its 'login' value     *)

max_logs == 100

NoCredentials == [empty |-> TRUE, login_is_int |-> FALSE]

MT5Manager_init ==
    [ connected    |-> FALSE,
      account_info |-> "None",
      logs         |-> 0,
      lock         |-> "free",
      credentials  |-> NoCredentials,
      stop_thread  |-> FALSE ]

add_log(m) == [m EXCEPT !.logs = min2(@ + 1, max_logs)]

\* threading.Lock is not reentrant: `with self.lock` enters on a free lock only
can_acquire_mut_always(m) == TRUE

can_acquire(m) == m.lock = "free"

\* attempt_login(): the manager after the call and what the call returned or
\* raised.  initialized and authorized are the answers of mt5.initialize()
\* and mt5.login(); int(self.credentials['login']) raises on a value that is
\* no integer.
attempt_login_mut_early(m, initialized, authorized) ==
    IF m.credentials.empty THEN [m |-> m, ret |-> "False"]
    ELSE LET m1 == [add_log(m) EXCEPT !.connected = TRUE]
         IN  IF ~initialized THEN [m |-> add_log(m1), ret |-> "False"]
             ELSE IF ~m1.credentials.login_is_int
             THEN [m |-> m1, ret |-> "raise"]
             ELSE IF authorized
             THEN [m |-> add_log(m1), ret |-> "True"]
             ELSE [m |-> add_log(m1), ret |-> "False"]

attempt_login(m, initialized, authorized) ==
    IF m.credentials.empty THEN [m |-> m, ret |-> "False"]
    ELSE LET m1 == add_log(m)
         IN  IF ~initialized THEN [m |-> add_log(m1), ret |-> "False"]
             ELSE IF ~m1.credentials.login_is_int
             THEN [m |-> m1, ret |-> "raise"]
             ELSE IF authorized
             THEN [m |-> add_log([m1 EXCEPT !.connected = TRUE]), ret |-> "True"]
             ELSE [m |-> add_log(m1), ret |-> "False"]

\* the threads of the process: the poller started at import, and the
\* workers serving /api/login requests
Requests == {"req1", "req2"}
Threads == {"poller"} \cup Requests

\* the poller is at the head of its loop, no request is being served
MT5Threads_init ==
    [t \in Threads |->
        [ pc |-> IF t = "poller" THEN "while" ELSE "idle",
          login_is_int |-> FALSE,     \* int() accepts data.get('login')
          success |-> FALSE ]]        \* the local `success` of login()

----------------------------------------------------------------------------
(* Inputs *)

IngestPrices == {990, 1000, 1010}
IngestTimeframes == {1, 5, 15, 60}
DetectPrices == {0, 980, 1000, 1010, 1020, 1030}
SecondaryPrices == {0, 250}
Outcomes == {"WIN", "LOSS"}
Features == {"setupA", "setupB"}
Confidences == {0, 69, 70, 84, 85, 100}

\* A script is a sequence of update_data calls <<price, timeframe>>;
\* ReplayFrom makes the calls lo..hi of it in order, starting from eng
RECURSIVE ReplayFrom(_, _, _, _)
ReplayFrom(eng, script, lo, hi) ==
    IF lo > hi THEN eng
    ELSE IF lo = hi THEN update_data(eng, script[lo][1], script[lo][2])
    ELSE LET mid == (lo + hi) \div 2
             half == ReplayFrom(eng, script, lo, mid)
         IN  \* the test makes TLC compute half before it replays the rest
             IF half.bias = half.bias
             THEN ReplayFrom(half, script, mid + 1, hi)
             ELSE half

Replay(script) == ReplayFrom(ICTProductionEngine_init, script, 1, Len(script))

\* warm-up scripts: nothing; reference buffer two short of its window and the
\* 1m buffer one short of scannable; the 5m buffer one short of full
WarmFresh == <<>>
WarmHTF ==
    [i \in 1..(htf_window - 2) |-> <<IF i = 1 THEN 1020 ELSE 1000, 15>>]
    \o [i \in 1..(ets_min_bars - 1) |-> <<1000, 1>>]
WarmFull ==
    [i \in 1..(max_history - 1) |->
        <<IF i = 1 THEN 1020 ELSE IF i % 2 = 0 THEN 1000 ELSE 1010, 5>>]
WarmUps == {WarmFresh, WarmHTF, WarmFull}

\* A learning script is a sequence of outcomes fed to record_outcome
RECURSIVE ReplayOutcomes(_, _)
ReplayOutcomes(script, n) ==
    IF n = 0 THEN LearningEngine_init
    ELSE record_outcome(ReplayOutcomes(script, n - 1), "setupA", script[n])

LearnWarmUps == { <<>>, [i \in 1..24 |-> "WIN"], [i \in 1..24 |-> "LOSS"] }

NoSelIn == [mtf_data |-> <<>>, htf_bias |-> "None", htf_sweep_extreme |-> 0]
NoSmtIn ==
    [primary_df |-> <<>>, secondary_df |-> <<>>, liquidity_context |-> [levels |-> <<>>]]

NoScoreIn == [setup |-> NoSetup, df |-> <<>>]

\* what a reader of the range can see between two calls
Snapshot(eng) == [dealing_range |-> eng.dealing_range, bias |-> eng.bias]

\* no call in flight
NoRace ==
    [ upd_pc     |-> "idle",   \* the thread inside update_data(price, 15)
      upd_prices |-> {},       \* its local `prices`
      upd_pre    |-> Snapshot(ICTProductionEngine_init),
      chk_pc     |-> "idle",   \* the thread inside detect_setup(current_price)
      chk_price  |-> 0,
      chk_sweep  |-> "None",
      chk_reads  |-> <<>>,     \* the values _check_sweeps has read so far
      chk_snaps  |-> {} ]      \* the complete range states since it began

----------------------------------------------------------------------------
(* Actions: one per public operation *)

UpdateData ==
    /\ steps < MaxTicks
    /\ \E price \in IngestPrices, timeframe \in IngestTimeframes :
         /\ engine' = update_data(engine, price, timeframe)
         /\ call' = [op |-> "update_data", price |-> price, timeframe |-> timeframe]
    /\ result' = NoneResult
    /\ steps' = steps + 1
    /\ UNCHANGED <<learning_engine, ets, sel_in, smt_detector, smt_in, race,
                   score_in, mt5_manager, mt5_threads>>

DetectSetup ==
    /\ \E current_price \in DetectPrices, secondary_price \in SecondaryPrices,
          rnd \in BOOLEAN :
         \* without a secondary price random.random() is not drawn
         /\ (secondary_price = 0 => ~rnd)
         /\ LET r == detect_setup(engine, ets, current_price, secondary_price, rnd)
            IN  /\ engine' = r.eng
                /\ result' = r.result
                /\ call' = [op |-> "detect_setup", current_price |-> current_price,
                            secondary_price |-> secondary_price,
                            prior_sweep |-> engine.active_sweep]
    /\ UNCHANGED <<learning_engine, ets, steps, sel_in, smt_detector, smt_in, race,
                   score_in, mt5_manager, mt5_threads>>

RecordTradeOutcome ==
    /\ steps < MaxOutcomes
    /\ \E setup_features \in Features, outcome \in Outcomes :
         /\ learning_engine' = record_outcome(learning_engine, setup_features, outcome)
         /\ call' = [op |-> "record_trade_outcome",
                     setup_features |-> setup_features, outcome |-> outcome]
    /\ ets' = [ets EXCEPT !.weights = learning_engine'.feature_weights]
    /\ result' = record_outcome_ret(learning_engine')
    /\ steps' = steps + 1
    /\ UNCHANGED <<engine, sel_in, smt_detector, smt_in, race,
                   score_in, mt5_manager, mt5_threads>>

GetAdaptiveRisk ==
    /\ \E ml_confidence \in Confidences :
         /\ result' = [kind |-> "risk",
                       value |-> get_adaptive_risk(learning_engine, ml_confidence)]
         /\ call' = [op |-> "get_adaptive_risk", ml_confidence |-> ml_confidence]
    /\ UNCHANGED <<learning_engine, ets, engine, steps, sel_in, smt_detector, smt_in, race,
                   score_in, mt5_manager, mt5_threads>>

----------------------------------------------------------------------------
(* Specifications *)

\* the rule engine, from construction or from a warmed-up state
Init ==
    /\ learning_engine = LearningEngine_init
    /\ ets = ExecutionTimeframeSelector_init(LearningEngine_init.feature_weights)
    /\ \E w \in WarmUps : engine = Replay(w)
    /\ call = [op |-> "__init__"]
    /\ result = NoneResult
    /\ steps = 0
    /\ sel_in = NoSelIn
    /\ smt_detector = SMTDetector_init(5, 3)
    /\ smt_in = NoSmtIn
    /\ race = NoRace
    /\ score_in = NoScoreIn
    /\ mt5_manager = MT5Manager_init
    /\ mt5_threads = MT5Threads_init

Next == UpdateData \/ DetectSetup

Spec == Init /\ [][Next]_vars

\* the learning engine, from construction or after a run of wins or losses
InitLearn ==
    /\ \E w \in LearnWarmUps : learning_engine = ReplayOutcomes(w, Len(w))
    /\ ets = ExecutionTimeframeSelector_init(LearningEngine_init.feature_weights)
    /\ engine = ICTProductionEngine_init
    /\ call = [op |-> "__init__"]
    /\ result = NoneResult
    /\ steps = 0
    /\ sel_in = NoSelIn
    /\ smt_detector = SMTDetector_init(5, 3)
    /\ smt_in = NoSmtIn
    /\ race = NoRace
    /\ score_in = NoScoreIn
    /\ mt5_manager = MT5Manager_init
    /\ mt5_threads = MT5Threads_init

NextLearn == RecordTradeOutcome \/ GetAdaptiveRisk

SpecLearn == InitLearn /\ [][NextLearn]_vars

\* the engine with its learning hook: every public operation of
\* ICTProductionEngine and of its LearningEngine, in any order, from an
\* engine whose reference buffer is two short of its window
NextAll == UpdateData \/ DetectSetup \/ RecordTradeOutcome \/ GetAdaptiveRisk

InitAll ==
    /\ learning_engine = LearningEngine_init
    /\ ets = ExecutionTimeframeSelector_init(learning_engine.feature_weights)
    /\ engine = Replay(WarmHTF)
    /\ call = [op |-> "__init__"]
    /\ result = NoneResult
    /\ steps = 0
    /\ sel_in = NoSelIn
    /\ smt_detector = SMTDetector_init(5, 3)
    /\ smt_in = NoSmtIn
    /\ race = NoRace
    /\ score_in = NoScoreIn
    /\ mt5_manager = MT5Manager_init
    /\ mt5_threads = MT5Threads_init

SpecAll == InitAll /\ [][NextAll]_vars

----------------------------------------------------------------------------
(* select_best_setup called directly, on frames of a small library *)

Bars(closes) == [i \in 1..Len(closes) |-> Obs(closes[i])]
Flat(n) == [i \in 1..n |-> 1000]

\* the last five closes of a frame
Tails ==
    [ up1   |-> <<1000, 1000, 1000, 1000, 1001>>,
      up2   |-> <<1000, 1000, 1000, 1000, 1002>>,
      ramp  |-> <<996, 997, 998, 999, 1002>>,
      equal |-> <<1002, 1000, 1000, 1000, 1002>>,
      dn1   |-> <<1000, 1000, 1000, 1000, 999>>,
      dn4   |-> <<1000, 1000, 1000, 1000, 996>> ]

Frames ==
    { Bars(Flat(5) \o Tails[t]) : t \in DOMAIN Tails }
    \cup { Bars(Flat(4) \o Tails.up2), Bars(Flat(7) \o Tails.up1) }

SweepExtremes == {996, 1001, 1010, 1030}
Biases == {"DISCOUNT", "PREMIUM", "None"}

\* mtf_data: each of the timeframes 1, 2, 3 absent or holding a frame, and
\* timeframe 5 absent or holding the up1 frame; items in ascending order
MtfDataOf(pick, with5) ==
    LET tfs == SelectSeq(<<1, 2, 3>>, LAMBDA tf : pick[tf] # <<>>)
        low == [i \in 1..Len(tfs) |-> [tf |-> tfs[i], df |-> pick[tfs[i]]]]
    IN  IF with5 THEN Append(low, [tf |-> 5, df |-> Bars(Flat(5) \o Tails.up1)])
        ELSE low

SelInputs ==
    { [ mtf_data |-> MtfDataOf(pick, with5), htf_bias |-> b, htf_sweep_extreme |-> x ] :
        pick \in [{1, 2, 3} -> Frames \cup {<<>>}], with5 \in BOOLEAN,
        b \in Biases, x \in SweepExtremes }

SelectBestSetup ==
    /\ call.op = "__init__"
    /\ result' = [kind |-> "setup",
                  setup |-> select_best_setup(ets, sel_in.mtf_data, sel_in.htf_bias,
                                              sel_in.htf_sweep_extreme)]
    /\ call' = [op |-> "select_best_setup"]
    /\ UNCHANGED <<learning_engine, ets, engine, steps, sel_in, smt_detector, smt_in, race,
                   score_in, mt5_manager, mt5_threads>>

InitETS ==
    /\ learning_engine = LearningEngine_init
    /\ ets = ExecutionTimeframeSelector_init(LearningEngine_init.feature_weights)
    /\ engine = ICTProductionEngine_init
    /\ call = [op |-> "__init__"]
    /\ result = NoneResult
    /\ steps = 0
    /\ sel_in \in SelInputs
    /\ smt_detector = SMTDetector_init(5, 3)
    /\ smt_in = NoSmtIn
    /\ race = NoRace
    /\ score_in = NoScoreIn
    /\ mt5_manager = MT5Manager_init
    /\ mt5_threads = MT5Threads_init

NextETS == SelectBestSetup

SpecETS == InitETS /\ [][NextETS]_vars

----------------------------------------------------------------------------
(* _calculate_quality_score called directly: on a candidate of a library    *)
(* frame, with its displacement magnitude replaced by one of a few values   *)

\* 0.1, 0.25, 0.5, 1, 1.5, 2, 3 and 30
ScoreMagnitudes ==
    { [num |-> n, den |-> 4000] :
        n \in {400, 1000, 2000, 4000, 6000, 8000, 12000, 120000} }

\* the candidates _validate_tf_structure builds, with their 'tf'
ScoreInputs ==
    { [ setup |-> [ type |-> c.type, entry |-> c.entry, sl |-> c.sl, tp |-> c.tp,
                    fvg_top |-> c.fvg_top, fvg_bottom |-> c.fvg_bottom,
                    displacement_mag |-> c.displacement_mag, tf |-> tf ],
        df |-> f ] :
        <<c, f, tf>> \in
          { <<_validate_tf_structure(f, b, x), f, tf>> :
              f \in Frames, b \in Biases, x \in SweepExtremes, tf \in {1, 2, 3} }
          \ { <<NoSetup, f, tf>> : f \in Frames, tf \in {1, 2, 3} } }

NoPriorScore == [made |-> FALSE, displacement_mag |-> [num |-> 0, den |-> 1], score |-> 0]

\* one call; the call record keeps the magnitude and the score of the call
\* before it, for comparison
CalculateQualityScore ==
    /\ \E mag \in ScoreMagnitudes :
         LET setup == [score_in.setup EXCEPT !.displacement_mag = mag]
         IN  /\ result' = [kind |-> "score",
                           value |-> _calculate_quality_score(ets.weights, setup,
                                                              score_in.df)]
             /\ call' = [op |-> "_calculate_quality_score",
                         displacement_mag |-> mag,
                         prior |-> IF call.op = "_calculate_quality_score"
                                   THEN [made |-> TRUE,
                                         displacement_mag |-> call.displacement_mag,
                                         score |-> result.value]
                                   ELSE NoPriorScore]
    /\ UNCHANGED <<learning_engine, ets, engine, steps, sel_in, smt_detector, smt_in,
                   race, score_in, mt5_manager, mt5_threads>>

InitScore ==
    /\ learning_engine = LearningEngine_init
    /\ ets = ExecutionTimeframeSelector_init(LearningEngine_init.feature_weights)
    /\ engine = ICTProductionEngine_init
    /\ call = [op |-> "__init__"]
    /\ result = NoneResult
    /\ steps = 0
    /\ sel_in = NoSelIn
    /\ smt_detector = SMTDetector_init(5, 3)
    /\ smt_in = NoSmtIn
    /\ race = NoRace
    /\ score_in \in ScoreInputs
    /\ mt5_manager = MT5Manager_init
    /\ mt5_threads = MT5Threads_init

NextScore == CalculateQualityScore

SpecScore == InitScore /\ [][NextScore]_vars

----------------------------------------------------------------------------
(* The SMTDetector called directly, on frames of a small library.  A frame  *)
(* of 15 rows is drawn from a plan for its highs and a plan for its lows:   *)
(* the highs rise (the lows fall) by `slope` a row, and a spike (a dip) of  *)
(* the given size is added at the given 0-based rows.                       *)

FrameLen == 15

Plans ==
    { [slope |-> 1, spikes |-> <<>>],
      [slope |-> 0, spikes |-> <<>>],
      [slope |-> 1, spikes |-> <<[at |-> 9, size |-> 5]>>],
      [slope |-> 1, spikes |-> <<[at |-> 4, size |-> 5], [at |-> 9, size |-> 12]>>],
      [slope |-> 1, spikes |-> <<[at |-> 4, size |-> 12], [at |-> 9, size |-> 5]>>],
      [slope |-> 1, spikes |-> <<[at |-> 4, size |-> 5], [at |-> 10, size |-> 12]>>],
      [slope |-> 1, spikes |-> <<[at |-> 4, size |-> 20], [at |-> 12, size |-> 5]>>] }

PlanAt(plan, idx) ==
    plan.slope * idx
    + SumSeq([n \in 1..Len(plan.spikes) |->
                 IF plan.spikes[n].at = idx THEN plan.spikes[n].size ELSE 0])

Frame(hp, lp) ==
    [ k \in 1..FrameLen |->
        [ price |-> 1000 - PlanAt(lp, k - 1),
          high  |-> 1100 + PlanAt(hp, k - 1),
          low   |-> 1000 - PlanAt(lp, k - 1),
          close |-> 1000 - PlanAt(lp, k - 1) ] ]

SmtFrames == { Frame(hp, lp) : hp \in Plans, lp \in Plans }
PivotWindows == {1, 2}
Tolerances == {1, 3}
LiquidityContexts == { [levels |-> <<>>], [levels |-> <<1121, 979>>] }

DetectFractalPivots ==
    /\ \E which \in {"primary", "secondary"} :
         LET df == IF which = "primary" THEN smt_in.primary_df ELSE smt_in.secondary_df
         IN  /\ result' = [kind |-> "pivots",
                           pivots |-> detect_fractal_pivots(smt_detector, df)]
             /\ call' = [op |-> "detect_fractal_pivots", df |-> df]
    /\ UNCHANGED <<learning_engine, ets, engine, steps, sel_in, smt_detector, smt_in, race,
                   score_in, mt5_manager, mt5_threads>>

AnalyzeDivergence ==
    /\ result' = [kind |-> "divergence",
                  value |-> analyze_divergence(smt_detector, smt_in.primary_df,
                                               smt_in.secondary_df,
                                               smt_in.liquidity_context)]
    /\ call' = [op |-> "analyze_divergence"]
    /\ UNCHANGED <<learning_engine, ets, engine, steps, sel_in, smt_detector, smt_in, race,
                   score_in, mt5_manager, mt5_threads>>

InitSMT ==
    /\ learning_engine = LearningEngine_init
    /\ ets = ExecutionTimeframeSelector_init(LearningEngine_init.feature_weights)
    /\ engine = ICTProductionEngine_init
    /\ call = [op |-> "__init__"]
    /\ result = NoneResult
    /\ steps = 0
    /\ sel_in = NoSelIn
    /\ \E w \in PivotWindows, t \in Tolerances : smt_detector = SMTDetector_init(w, t)
    /\ \E p \in SmtFrames, s \in SmtFrames, c \in LiquidityContexts :
         smt_in = [primary_df |-> p, secondary_df |-> s, liquidity_context |-> c]
    /\ race = NoRace
    /\ score_in = NoScoreIn
    /\ mt5_manager = MT5Manager_init
    /\ mt5_threads = MT5Threads_init

NextSMT == DetectFractalPivots \/ AnalyzeDivergence

SpecSMT == InitSMT /\ [][NextSMT]_vars

----------------------------------------------------------------------------
(* update_data(price, 15) and detect_setup(current_price) called from two   *)
(* threads on one engine.  The engine holds no lock, so the interpreter may *)
(* switch threads between any two statements and between the two reads of   *)
(* one condition; each action below is one such step.                       *)

RaceCheckPrices == {0, 995, 1025}

WarmRace == [i \in 1..(htf_window - 1) |-> <<IF i = 1 THEN 1020 ELSE 1000, 15>>]

\* lines 106-108: the append and the pop; then line 111 enters
\* _update_htf_structure
IngestAppend ==
    /\ race.upd_pc = "idle"
    /\ steps < MaxTicks
    /\ \E price \in IngestPrices :
         LET appended == Append(engine.mtf_history[15], Obs(price))
             kept == IF Len(appended) > max_history THEN Tail(appended) ELSE appended
             post == Snapshot(update_data(engine, price, 15))
         IN  /\ engine' = [engine EXCEPT !.mtf_history[15] = kept]
             /\ race' = [race EXCEPT
                           !.upd_pc = "htf",
                           !.upd_pre = Snapshot(engine),
                           !.chk_snaps = IF race.chk_pc \in {"idle", "record"} THEN @
                                         ELSE @ \cup {post}]
    /\ steps' = steps + 1
    /\ UNCHANGED <<learning_engine, ets, call, result, sel_in, smt_detector, smt_in,
                   score_in, mt5_manager, mt5_threads>>

\* lines 122-124: the early return, or the local list of the last 20 prices
HtfReadPrices ==
    /\ race.upd_pc = "htf"
    /\ race' = IF Len(engine.mtf_history[15]) < htf_window
               THEN [race EXCEPT !.upd_pc = "idle"]
               ELSE [race EXCEPT
                       !.upd_pc = "high",
                       !.upd_prices =
                           {p.price : p \in Range(LastN(engine.mtf_history[15], htf_window))}]
    /\ UNCHANGED <<learning_engine, ets, engine, call, result, steps, sel_in,
                   smt_detector, smt_in,
                   score_in, mt5_manager, mt5_threads>>

\* line 125
HtfWriteHigh ==
    /\ race.upd_pc = "high"
    /\ engine' = [engine EXCEPT !.dealing_range.high = SetMax(race.upd_prices)]
    /\ race' = [race EXCEPT !.upd_pc = "low"]
    /\ UNCHANGED <<learning_engine, ets, call, result, steps, sel_in, smt_detector, smt_in,
                   score_in, mt5_manager, mt5_threads>>

\* line 126
HtfWriteLow ==
    /\ race.upd_pc = "low"
    /\ engine' = [engine EXCEPT !.dealing_range.low = SetMin(race.upd_prices)]
    /\ race' = [race EXCEPT !.upd_pc = "eq"]
    /\ UNCHANGED <<learning_engine, ets, call, result, steps, sel_in, smt_detector, smt_in,
                   score_in, mt5_manager, mt5_threads>>

\* line 127
HtfWriteEq ==
    /\ race.upd_pc = "eq"
    /\ engine' = [engine EXCEPT !.dealing_range.eq =
                     (engine.dealing_range.high + engine.dealing_range.low) \div 2]
    /\ race' = [race EXCEPT !.upd_pc = "bias"]
    /\ UNCHANGED <<learning_engine, ets, call, result, steps, sel_in, smt_detector, smt_in,
                   score_in, mt5_manager, mt5_threads>>

\* lines 129-130
HtfWriteBias ==
    /\ race.upd_pc = "bias"
    /\ LET current_price == engine.mtf_history[15][Len(engine.mtf_history[15])].price
       IN  engine' = [engine EXCEPT !.bias =
                         IF current_price > engine.dealing_range.eq
                         THEN "PREMIUM" ELSE "DISCOUNT"]
    /\ race' = [race EXCEPT !.upd_pc = "idle", !.upd_prices = {}]
    /\ UNCHANGED <<learning_engine, ets, call, result, steps, sel_in, smt_detector, smt_in,
                   score_in, mt5_manager, mt5_threads>>

\* line 135: detect_setup calls _check_sweeps(current_price)
CheckStart ==
    /\ race.chk_pc = "idle"
    /\ \E current_price \in RaceCheckPrices :
         race' = [race EXCEPT
                    !.chk_pc = "high_pos",
                    !.chk_price = current_price,
                    !.chk_sweep = "None",
                    !.chk_reads = <<>>,
                    !.chk_snaps =
                        IF race.upd_pc = "idle" THEN {Snapshot(engine)}
                        ELSE {race.upd_pre, Snapshot(_update_htf_structure(engine))}]
    /\ UNCHANGED <<learning_engine, ets, engine, call, result, steps, sel_in,
                   smt_detector, smt_in,
                   score_in, mt5_manager, mt5_threads>>

\* _check_sweeps has returned `sweep`
CheckReturn(reads, sweep) ==
    /\ race' = [race EXCEPT
                  !.chk_pc = "record",
                  !.chk_sweep = sweep,
                  !.chk_reads = reads]
    /\ call' = [op |-> "_check_sweeps", price |-> race.chk_price]
    /\ result' = [kind |-> "sweep", sweep |-> sweep, reads |-> reads,
                  snaps |-> race.chk_snaps]

\* line 194, left operand: self.dealing_range['high'] > 0
CheckHighPos ==
    /\ race.chk_pc = "high_pos"
    /\ LET v == engine.dealing_range.high
           reads == Append(race.chk_reads, [field |-> "high", value |-> v])
       IN  /\ race' = [race EXCEPT
                         !.chk_pc = IF v > 0 THEN "high_cmp" ELSE "low_pos",
                         !.chk_reads = reads]
    /\ UNCHANGED <<learning_engine, ets, engine, call, result, steps, sel_in,
                   smt_detector, smt_in,
                   score_in, mt5_manager, mt5_threads>>

\* line 194, right operand: price > self.dealing_range['high']
CheckHighCmp ==
    /\ race.chk_pc = "high_cmp"
    /\ LET v == engine.dealing_range.high
           reads == Append(race.chk_reads, [field |-> "high", value |-> v])
       IN  IF race.chk_price > v
           THEN CheckReturn(reads, "BUY_SIDE")
           ELSE /\ race' = [race EXCEPT !.chk_pc = "low_pos", !.chk_reads = reads]
                /\ UNCHANGED <<call, result>>
    /\ UNCHANGED <<learning_engine, ets, engine, steps, sel_in, smt_detector, smt_in,
                   score_in, mt5_manager, mt5_threads>>

\* line 195, left operand: self.dealing_range['low'] > 0
CheckLowPos ==
    /\ race.chk_pc = "low_pos"
    /\ LET v == engine.dealing_range.low
           reads == Append(race.chk_reads, [field |-> "low", value |-> v])
       IN  IF v > 0
           THEN /\ race' = [race EXCEPT !.chk_pc = "low_cmp", !.chk_reads = reads]
                /\ UNCHANGED <<call, result>>
           ELSE CheckReturn(reads, "None")
    /\ UNCHANGED <<learning_engine, ets, engine, steps, sel_in, smt_detector, smt_in,
                   score_in, mt5_manager, mt5_threads>>

\* line 195, right operand: price < self.dealing_range['low']; line 196
CheckLowCmp ==
    /\ race.chk_pc = "low_cmp"
    /\ LET v == engine.dealing_range.low
           reads == Append(race.chk_reads, [field |-> "low", value |-> v])
       IN  CheckReturn(reads, IF race.chk_price < v THEN "SELL_SIDE" ELSE "None")
    /\ UNCHANGED <<learning_engine, ets, engine, steps, sel_in, smt_detector, smt_in,
                   score_in, mt5_manager, mt5_threads>>

\* lines 136-173: the rest of detect_setup once _check_sweeps has returned,
\* called without a secondary price
CheckRecord ==
    /\ race.chk_pc = "record"
    /\ LET sweep == race.chk_sweep
           price == race.chk_price
       IN  /\ call' = [op |-> "detect_setup", current_price |-> price,
                       secondary_price |-> 0, prior_sweep |-> engine.active_sweep]
           /\ IF sweep # "None"
              THEN IF price = 0
                   THEN /\ engine' = engine
                        /\ result' = [kind |-> "raise", error |-> "ZeroDivisionError"]
                   ELSE /\ engine' = record_sweep(engine, price, sweep)
                        /\ result' = [kind |-> "log", sweep |-> sweep, smt |-> "None"]
              ELSE /\ engine' = engine
                   /\ result' = IF engine.active_sweep # NoSweep /\ mtf_dfs_of(engine) # <<>>
                                THEN [kind |-> "raise", error |-> "NameError"]
                                ELSE NoneResult
    /\ race' = [race EXCEPT !.chk_pc = "idle", !.chk_price = 0, !.chk_sweep = "None",
                             !.chk_reads = <<>>, !.chk_snaps = {}]
    /\ UNCHANGED <<learning_engine, ets, steps, sel_in, smt_detector, smt_in,
                   score_in, mt5_manager, mt5_threads>>

InitRace ==
    /\ learning_engine = LearningEngine_init
    /\ ets = ExecutionTimeframeSelector_init(LearningEngine_init.feature_weights)
    /\ engine = Replay(WarmRace)
    /\ call = [op |-> "__init__"]
    /\ result = NoneResult
    /\ steps = 0
    /\ sel_in = NoSelIn
    /\ smt_detector = SMTDetector_init(5, 3)
    /\ smt_in = NoSmtIn
    /\ race = NoRace
    /\ score_in = NoScoreIn
    /\ mt5_manager = MT5Manager_init
    /\ mt5_threads = MT5Threads_init

NextRace ==
    \/ IngestAppend \/ HtfReadPrices \/ HtfWriteHigh \/ HtfWriteLow
    \/ HtfWriteEq \/ HtfWriteBias
    \/ CheckStart \/ CheckHighPos \/ CheckHighCmp \/ CheckLowPos \/ CheckLowCmp
    \/ CheckRecord

SpecRace == InitRace /\ [][NextRace]_vars

----------------------------------------------------------------------------
(* The threads of src/app.py on the one MT5Manager: the poller inside       *)
(* poll_status and the workers inside login().  Each action is one          *)
(* statement, or a run of statements no other thread can observe apart;     *)
(* `call` names the statement and the thread that executed it.  The         *)
(* terminal's answers (account_info, initialize, login) are inputs.         *)

\* lines 48-49: the loop test and the read of self.connected, outside the lock
PollCheck ==
    /\ mt5_threads["poller"].pc = "while"
    /\ ~mt5_manager.stop_thread
    /\ mt5_threads' = [mt5_threads EXCEPT !["poller"].pc =
                          IF mt5_manager.connected THEN "acquire" ELSE "sleep"]
    /\ call' = [op |-> "poll_status:read_connected", by |-> "poller"]
    /\ result' = NoneResult
    /\ UNCHANGED <<learning_engine, ets, engine, steps, sel_in, smt_detector, smt_in,
                   race, score_in, mt5_manager>>

\* line 50: with self.lock
PollAcquire ==
    /\ mt5_threads["poller"].pc = "acquire"
    /\ can_acquire(mt5_manager)
    /\ mt5_manager' = [mt5_manager EXCEPT !.lock = "poller"]
    /\ mt5_threads' = [mt5_threads EXCEPT !["poller"].pc = "info"]
    /\ call' = [op |-> "poll_status:acquire", by |-> "poller"]
    /\ result' = NoneResult
    /\ UNCHANGED <<learning_engine, ets, engine, steps, sel_in, smt_detector, smt_in,
                   race, score_in>>

\* lines 51-52: info = mt5.account_info(); if info
PollAccountInfo ==
    /\ mt5_threads["poller"].pc = "info"
    /\ \E info \in BOOLEAN :
         mt5_threads' = [mt5_threads EXCEPT !["poller"].pc =
                            IF info THEN "store" ELSE "lost"]
    /\ call' = [op |-> "poll_status:account_info", by |-> "poller"]
    /\ result' = NoneResult
    /\ UNCHANGED <<learning_engine, ets, engine, steps, sel_in, smt_detector, smt_in,
                   race, score_in, mt5_manager>>

\* lines 53-59
PollStore ==
    /\ mt5_threads["poller"].pc = "store"
    /\ mt5_manager' = [mt5_manager EXCEPT !.account_info = "info"]
    /\ mt5_threads' = [mt5_threads EXCEPT !["poller"].pc = "release"]
    /\ call' = [op |-> "poll_status:store", by |-> "poller"]
    /\ result' = NoneResult
    /\ UNCHANGED <<learning_engine, ets, engine, steps, sel_in, smt_detector, smt_in,
                   race, score_in>>

\* lines 61-62
PollLost ==
    /\ mt5_threads["poller"].pc = "lost"
    /\ mt5_manager' = [add_log(mt5_manager) EXCEPT !.connected = FALSE]
    /\ mt5_threads' = [mt5_threads EXCEPT !["poller"].pc = "reconnect"]
    /\ call' = [op |-> "poll_status:lost", by |-> "poller"]
    /\ result' = NoneResult
    /\ UNCHANGED <<learning_engine, ets, engine, steps, sel_in, smt_detector, smt_in,
                   race, score_in>>

\* line 64: self.attempt_login(); an exception leaves the with block, which
\* releases the lock, and ends the thread
PollReconnect ==
    /\ mt5_threads["poller"].pc = "reconnect"
    /\ \E initialized \in BOOLEAN, authorized \in BOOLEAN :
         LET r == attempt_login(mt5_manager, initialized, authorized)
         IN  IF r.ret = "raise"
             THEN /\ mt5_manager' = [r.m EXCEPT !.lock = "free"]
                  /\ mt5_threads' = [mt5_threads EXCEPT !["poller"].pc = "dead"]
                  /\ result' = [kind |-> "raise", error |-> "ValueError"]
             ELSE /\ mt5_manager' = r.m
                  /\ mt5_threads' = [mt5_threads EXCEPT !["poller"].pc = "release"]
                  /\ result' = [kind |-> "bool", value |-> (r.ret = "True")]
    /\ call' = [op |-> "attempt_login", by |-> "poller"]
    /\ UNCHANGED <<learning_engine, ets, engine, steps, sel_in, smt_detector, smt_in,
                   race, score_in>>

\* the end of the with block
PollRelease ==
    /\ mt5_threads["poller"].pc = "release"
    /\ mt5_manager' = [mt5_manager EXCEPT !.lock = "free"]
    /\ mt5_threads' = [mt5_threads EXCEPT !["poller"].pc = "sleep"]
    /\ call' = [op |-> "poll_status:release", by |-> "poller"]
    /\ result' = NoneResult
    /\ UNCHANGED <<learning_engine, ets, engine, steps, sel_in, smt_detector, smt_in,
                   race, score_in>>

\* line 65
PollSleep ==
    /\ mt5_threads["poller"].pc = "sleep"
    /\ mt5_threads' = [mt5_threads EXCEPT !["poller"].pc = "while"]
    /\ call' = [op |-> "poll_status:sleep", by |-> "poller"]
    /\ result' = NoneResult
    /\ UNCHANGED <<learning_engine, ets, engine, steps, sel_in, smt_detector, smt_in,
                   race, score_in, mt5_manager>>

\* line 102: a POST /api/login arrives; its 'login' value is one int()
\* accepts, or not
LoginRequest ==
    /\ \E r \in Requests, login_is_int \in BOOLEAN :
         /\ mt5_threads[r].pc = "idle"
         /\ mt5_threads' = [mt5_threads EXCEPT
                              ![r] = [pc |-> "acquire", login_is_int |-> login_is_int,
                                      success |-> FALSE]]
         /\ call' = [op |-> "login:request", by |-> r]
    /\ result' = NoneResult
    /\ UNCHANGED <<learning_engine, ets, engine, steps, sel_in, smt_detector, smt_in,
                   race, score_in, mt5_manager>>

\* line 103: with mt5_manager.lock
LoginAcquire ==
    /\ \E r \in Requests :
         /\ mt5_threads[r].pc = "acquire"
         /\ can_acquire(mt5_manager)
         /\ mt5_manager' = [mt5_manager EXCEPT !.lock = r]
         /\ mt5_threads' = [mt5_threads EXCEPT ![r].pc = "credentials"]
         /\ call' = [op |-> "login:acquire", by |-> r]
    /\ result' = NoneResult
    /\ UNCHANGED <<learning_engine, ets, engine, steps, sel_in, smt_detector, smt_in,
                   race, score_in>>

\* lines 104-108
LoginCredentials ==
    /\ \E r \in Requests :
         /\ mt5_threads[r].pc = "credentials"
         /\ mt5_manager' = [mt5_manager EXCEPT !.credentials =
                               [empty |-> FALSE,
                                login_is_int |-> mt5_threads[r].login_is_int]]
         /\ mt5_threads' = [mt5_threads EXCEPT ![r].pc = "attempt"]
         /\ call' = [op |-> "login:credentials", by |-> r]
    /\ result' = NoneResult
    /\ UNCHANGED <<learning_engine, ets, engine, steps, sel_in, smt_detector, smt_in,
                   race, score_in>>

\* line 109: success = mt5_manager.attempt_login(); an exception leaves the
\* with block, which releases the lock, and ends the request
LoginAttempt ==
    /\ \E r \in Requests, initialized \in BOOLEAN, authorized \in BOOLEAN :
         /\ mt5_threads[r].pc = "attempt"
         /\ LET a == attempt_login(mt5_manager, initialized, authorized)
            IN  IF a.ret = "raise"
                THEN /\ mt5_manager' = [a.m EXCEPT !.lock = "free"]
                     /\ mt5_threads' = [mt5_threads EXCEPT ![r] =
                                           [pc |-> "idle", login_is_int |-> FALSE,
                                            success |-> FALSE]]
                     /\ result' = [kind |-> "raise", error |-> "ValueError"]
                ELSE /\ mt5_manager' = a.m
                     /\ mt5_threads' = [mt5_threads EXCEPT
                                          ![r].pc = "respond",
                                          ![r].success = (a.ret = "True")]
                     /\ result' = [kind |-> "bool", value |-> (a.ret = "True")]
         /\ call' = [op |-> "attempt_login", by |-> r]
    /\ UNCHANGED <<learning_engine, ets, engine, steps, sel_in, smt_detector, smt_in,
                   race, score_in>>

\* the end of the with block, and lines 111-115
LoginRespond ==
    /\ \E r \in Requests :
         /\ mt5_threads[r].pc = "respond"
         /\ mt5_manager' = [mt5_manager EXCEPT !.lock = "free"]
         /\ mt5_threads' = [mt5_threads EXCEPT ![r] =
                               [pc |-> "idle", login_is_int |-> FALSE,
                                success |-> FALSE]]
         /\ result' = [kind |-> "response",
                       status |-> IF mt5_threads[r].success THEN 200 ELSE 401]
         /\ call' = [op |-> "login:respond", by |-> r]
    /\ UNCHANGED <<learning_engine, ets, engine, steps, sel_in, smt_detector, smt_in,
                   race, score_in>>

\* lines 117-123: GET /api/status reads three fields, without the lock
Status ==
    /\ call' = [op |-> "status", by |-> "status"]
    /\ result' = [kind |-> "status",
                  connected |-> mt5_manager.connected,
                  account |-> mt5_manager.account_info,
                  logs |-> mt5_manager.logs]
    /\ UNCHANGED <<learning_engine, ets, engine, steps, sel_in, smt_detector, smt_in,
                   race, score_in, mt5_manager, mt5_threads>>

InitMT5 ==
    /\ learning_engine = LearningEngine_init
    /\ ets = ExecutionTimeframeSelector_init(LearningEngine_init.feature_weights)
    /\ engine = ICTProductionEngine_init
    /\ call = [op |-> "__init__"]
    /\ result = NoneResult
    /\ steps = 0
    /\ sel_in = NoSelIn
    /\ smt_detector = SMTDetector_init(5, 3)
    /\ smt_in = NoSmtIn
    /\ race = NoRace
    /\ score_in = NoScoreIn
    /\ mt5_manager = MT5Manager_init
    /\ mt5_threads = MT5Threads_init

NextMT5 ==
    \/ PollCheck \/ PollAcquire \/ PollAccountInfo \/ PollStore \/ PollLost
    \/ PollReconnect \/ PollRelease \/ PollSleep
    \/ LoginRequest \/ LoginAcquire \/ LoginCredentials \/ LoginAttempt
    \/ LoginRespond \/ Status

SpecMT5 == InitMT5 /\ [][NextMT5]_vars

----------------------------------------------------------------------------
(* Claims about the learning engine (SpecLearn) *)

\* C1: after any sequence of recordOutcome calls and for every confidence
\* input, getAdaptiveRisk returns a value within the hard band [0.1, 0.8].
C1_RiskWithinHardBand ==
    call.op = "get_adaptive_risk" =>
        /\ result.kind = "risk"
        /\ result.value >= 1000
        /\ result.value <= 8000

\* the multiplier has drifted to 1.5 and the top tier is asked for:
\* 0.8 * 1.5 is cut back to 0.8
C1_Witness ==
    /\ call.op = "get_adaptive_risk"
    /\ call.ml_confidence = 100
    /\ learning_engine.confidence_multiplier = 1500
    /\ result.value = 8000

\* C2: the confidence multiplier is 1.0 while no outcome is recorded and lies
\* in [0.5, 1.5] in every state; each recordOutcome call moves it by exactly
\* +0.02 (Win) or -0.02 (Loss) unless the clamp at 1.5 or 0.5 cuts the step,
\* and appends exactly one record to the performance history.
C2_MultiplierStep ==
    /\ [](/\ learning_engine.confidence_multiplier >= 500
          /\ learning_engine.confidence_multiplier <= 1500
          /\ (learning_engine.performance_history = <<>>
                => learning_engine.confidence_multiplier = 1000))
    /\ [][ call'.op = "record_trade_outcome" =>
             LET m == learning_engine.confidence_multiplier
                 m2 == learning_engine'.confidence_multiplier
                 h == learning_engine.performance_history
                 h2 == learning_engine'.performance_history
             IN  /\ call'.outcome = "WIN" =>
                       \/ m2 = m + 20
                       \/ (m + 20 > 1500 /\ m2 = 1500)
                 /\ call'.outcome = "LOSS" =>
                       \/ m2 = m - 20
                       \/ (m - 20 < 500 /\ m2 = 500)
                 /\ Len(h2) = Len(h) + 1
                 /\ SubSeq(h2, 1, Len(h)) = h
                 /\ h2[Len(h2)] = [features |-> call'.setup_features,
                                   outcome |-> call'.outcome]
                 /\ result'.new_confidence = m2 ]_vars

\* a Win recorded at 1.5: the step is cut by the clamp
C2_Witness ==
    /\ call.op = "record_trade_outcome"
    /\ call.outcome = "WIN"
    /\ learning_engine.confidence_multiplier = 1500
    /\ Len(learning_engine.performance_history) = 26
    /\ \A i \in 1..26 : learning_engine.performance_history[i].outcome = "WIN"

----------------------------------------------------------------------------
(* Claims about the rule engine (Spec) *)

\* C3: detectSweep reports BuySide iff DealingRange.high > 0 and price > high,
\* otherwise SellSide iff DealingRange.low > 0 and price < low, otherwise
\* none; a price equal to an extreme is no sweep and an uninitialized (0)
\* range triggers none.  detectSetup reports a sweep exactly in these cases,
\* when it returns at all.
C3_SweepIffStrictCross ==
    [][ call'.op = "detect_setup" =>
          LET p == call'.current_price
              dr == engine.dealing_range
              buy == dr.high > 0 /\ p > dr.high
              sell == ~buy /\ dr.low > 0 /\ p < dr.low
              expected == IF buy THEN "BUY_SIDE"
                          ELSE IF sell THEN "SELL_SIDE" ELSE "None"
          IN  /\ _check_sweeps(engine, p) = expected
              /\ (dr.high = 0 /\ dr.low = 0) => expected = "None"
              /\ (p = dr.high \/ p = dr.low) => expected = "None"
              /\ result'.kind = "log" =>
                    /\ result'.sweep = expected
                    /\ expected # "None"
                    /\ engine'.active_sweep.type = expected
              /\ (expected # "None" /\ result'.kind # "raise") =>
                    result'.kind = "log" ]_vars

\* a price exactly at the computed range high was offered and was no sweep
C3_Witness ==
    /\ call.op = "detect_setup"
    /\ engine.dealing_range.high > 0
    /\ call.current_price = engine.dealing_range.high
    /\ result.kind # "log"
    /\ engine.active_sweep = call.prior_sweep

\* C4 as claimed: while a sweep is active and unresolved, a later detectSetup
\* call does not replace it.
C4_NoOverwriteWhileUnresolved ==
    [][ ( /\ call'.op = "detect_setup"
          /\ engine.active_sweep # NoSweep
          /\ engine'.active_sweep # NoSweep )
        => engine'.active_sweep = engine.active_sweep ]_vars

\* C4 amended: the engine holds at most one active sweep, and every
\* detectSetup call that reports a sweep makes the newly detected sweep the
\* active one, replacing any prior active sweep, resolved or not.
C4_NewSweepAlwaysOverwrites ==
    [][ (call'.op = "detect_setup" /\ result'.kind = "log") =>
          /\ engine'.active_sweep.type = result'.sweep
          /\ engine'.active_sweep.price = call'.current_price
          /\ engine'.active_sweep.aggression.den = call'.current_price ]_vars

\* a sweep was detected while a different sweep was active, and replaced it
C4_Witness ==
    /\ call.op = "detect_setup"
    /\ result.kind = "log"
    /\ call.prior_sweep # NoSweep
    /\ call.prior_sweep.price # call.current_price
    /\ engine.active_sweep.price = call.current_price

\* C5: the cycle Idle -> SweepActive -> Idle.  With a sweep active, a
\* detectSetup call at a price that is no new sweep either returns a selection
\* and clears the active sweep (back to Idle) or returns none and leaves the
\* sweep active; no selection is returned without an active sweep.
C5_CycleSelectsOrWaits ==
    ( /\ call.op = "detect_setup"
      /\ ~(engine.dealing_range.high > 0
             /\ call.current_price > engine.dealing_range.high)
      /\ ~(engine.dealing_range.low > 0
             /\ call.current_price < engine.dealing_range.low) )
    => \/ /\ result.kind = "action"
          /\ call.prior_sweep # NoSweep
          /\ engine.active_sweep = NoSweep
       \/ /\ result.kind = "None"
          /\ engine.active_sweep = call.prior_sweep

\* C7: every public operation is total: in every reachable state and for every
\* numeric price it completes with a result or none and never raises.
C7_NeverRaises ==
    result.kind # "raise"

\* C8: each timeframe buffer is a bounded FIFO: its length never exceeds 200,
\* an ingest appends the observation at the end, and an append to a full
\* buffer drops exactly the oldest observation and keeps the newest 200.
C8_BoundedFifo ==
    /\ [](\A tf \in {1, 2, 3, 4, 5, 15} : Len(engine.mtf_history[tf]) <= 200)
    /\ [][ (call'.op = "update_data" /\ call'.timeframe \in {1, 2, 3, 4, 5, 15}) =>
             LET h == engine.mtf_history[call'.timeframe]
                 h2 == engine'.mtf_history[call'.timeframe]
             IN  /\ h2[Len(h2)].price = call'.price
                 /\ IF Len(h) < 200
                    THEN /\ Len(h2) = Len(h) + 1
                         /\ SubSeq(h2, 1, Len(h)) = h
                    ELSE /\ Len(h2) = 200
                         /\ SubSeq(h2, 1, 199) = SubSeq(h, 2, 200) ]_vars

\* the 5m buffer is full and its first observation, the warm-up's 1020, has
\* been dropped by a later ingest
C8_Witness ==
    /\ call.op = "update_data"
    /\ call.timeframe = 5
    /\ Len(engine.mtf_history[5]) = 200
    /\ engine.mtf_history[5][1].price # 1020
    /\ engine.mtf_history[5][200].price = call.price

\* C9: ingest with a timeframe outside {1,2,3,4,5,15} is a silent no-op: no
\* error, every buffer, the DealingRange, the Bias and the active sweep
\* unchanged.  ingest on a tracked non-reference timeframe changes only that
\* timeframe's buffer and leaves DealingRange and Bias unchanged.
C9_IngestFrame ==
    [][ call'.op = "update_data" =>
          /\ result'.kind = "None"
          /\ call'.timeframe \notin {1, 2, 3, 4, 5, 15} => engine' = engine
          /\ call'.timeframe \in {1, 2, 3, 4, 5} =>
                /\ \A tf \in {1, 2, 3, 4, 5, 15} \ {call'.timeframe} :
                      engine'.mtf_history[tf] = engine.mtf_history[tf]
                /\ engine'.mtf_history[call'.timeframe]
                      # engine.mtf_history[call'.timeframe]
                /\ engine'.dealing_range = engine.dealing_range
                /\ engine'.bias = engine.bias
                /\ engine'.active_sweep = engine.active_sweep ]_vars

\* an unknown timeframe was ingested into an engine whose range is computed
\* and whose sweep is active, and all of it is still there
C9_Witness ==
    /\ call.op = "update_data"
    /\ call.timeframe = 60
    /\ engine.dealing_range.high > 0
    /\ engine.active_sweep # NoSweep
    /\ Len(engine.mtf_history[15]) = 20

\* C10: DealingRange stays {0,0,0} and Bias unset until the reference buffer
\* holds 20 observations; from then on high and low are the max and min of the
\* most recent 20 reference prices, high >= low, equilibrium = (high+low)/2,
\* and Bias is Premium iff the latest reference price > equilibrium, else
\* Discount.
C10_DealingRange ==
    LET h == engine.mtf_history[15]
        dr == engine.dealing_range
    IN  IF Len(h) < 20
        THEN /\ dr = [high |-> 0, low |-> 0, eq |-> 0]
             /\ engine.bias = "None"
        ELSE LET recent == {h[i].price : i \in (Len(h) - 19)..Len(h)}
             IN  /\ dr.high \in recent /\ \A x \in recent : x <= dr.high
                 /\ dr.low \in recent /\ \A x \in recent : x >= dr.low
                 /\ dr.high >= dr.low
                 /\ 2 * dr.eq = dr.high + dr.low
                 /\ engine.bias \in {"PREMIUM", "DISCOUNT"}
                 /\ engine.bias = "PREMIUM" <=> 2 * h[Len(h)].price > dr.high + dr.low

\* the window has slid past the warm-up's first price 1020, which is no longer
\* the high, and the latest price is above the equilibrium
C10_Witness ==
    /\ Len(engine.mtf_history[15]) = 21
    /\ engine.mtf_history[15][1].price = 1020
    /\ engine.dealing_range.high = 1010
    /\ engine.dealing_range.low = 990
    /\ engine.bias = "PREMIUM"

----------------------------------------------------------------------------
(* Claims about the selector (SpecETS) *)

\* C6: selectBestSetup returns the valid candidate with the maximum final
\* score (after the confluence bonus and the 1.0 cap) and only if that score
\* is >= 0.60; with no valid candidate or a maximum below 0.60 it returns
\* none.  A returned score lies in [0.60, 1.0].
C6_SelectsMaxAboveThreshold ==
    call.op = "select_best_setup" =>
        LET finals == _apply_confluence_bonus(
                          scored_setups(ets, sel_in.mtf_data, sel_in.htf_bias,
                                        sel_in.htf_sweep_extreme))
            scores == {finals[i].score : i \in 1..Len(finals)}
            chosen == result.setup
        IN  IF \A x \in scores : x < 600000
            THEN chosen = NoSetup
            ELSE /\ chosen # NoSetup
                 /\ \E i \in 1..Len(finals) : finals[i] = chosen
                 /\ \A x \in scores : x <= chosen.score
                 /\ chosen.score >= 600000
                 /\ chosen.score <= 1000000

\* three valid candidates, the first below 0.60, and the one returned is
\* neither the first nor the last of them
C6_Witness ==
    /\ call.op = "select_best_setup"
    /\ result.setup # NoSetup
    /\ Len(sel_in.mtf_data) = 3
    /\ result.setup.tf = sel_in.mtf_data[2].tf
    /\ LET finals == _apply_confluence_bonus(
                         scored_setups(ets, sel_in.mtf_data, sel_in.htf_bias,
                                       sel_in.htf_sweep_extreme))
       IN  /\ Len(finals) = 3
           /\ finals[1].score < 600000
           /\ finals[3].score < finals[2].score

----------------------------------------------------------------------------
(* Claims about the divergence detector (SpecSMT) *)

\* C11: analyzeDivergence returns Bullish whenever the bearish check fails and
\* the mirror condition on Low pivots holds: both series have >= 2 Low pivots,
\* the primary's latest Low pivot is below its prior one, the secondary's
\* latest Low pivot is >= its prior one, and the index gap of the two latest
\* Low pivots is <= tolerance.
C11_BullishWheneverMirrorHolds ==
    call.op = "analyze_divergence" =>
        LET pp == detect_fractal_pivots(smt_detector, smt_in.primary_df)
            sp == detect_fractal_pivots(smt_detector, smt_in.secondary_df)
            tol == smt_detector.tolerance
            last(q) == q[Len(q)]
            prev(q) == q[Len(q) - 1]
            bearish == /\ Len(pp.highs) >= 2 /\ Len(sp.highs) >= 2
                       /\ last(pp.highs).price > prev(pp.highs).price
                       /\ last(sp.highs).price <= prev(sp.highs).price
                       /\ Abs(last(pp.highs).index - last(sp.highs).index) <= tol
            bullish == /\ Len(pp.lows) >= 2 /\ Len(sp.lows) >= 2
                       /\ last(pp.lows).price < prev(pp.lows).price
                       /\ last(sp.lows).price >= prev(sp.lows).price
                       /\ Abs(last(pp.lows).index - last(sp.lows).index) <= tol
        IN  (~bearish /\ bullish) => result.value.smt_type = "bullish"

\* C12: Bearish is reported only when both series have >= 2 High pivots and
\* Bullish only when both have >= 2 Low pivots; when neither kind has two
\* pivots on both series the result is the None result, and the None result
\* has strengthScore, timeAlignmentScore and both pivot references 0 and
\* liquidityContextValid false.
C12_TwoPivotsOrNone ==
    call.op = "analyze_divergence" =>
        LET pp == detect_fractal_pivots(smt_detector, smt_in.primary_df)
            sp == detect_fractal_pivots(smt_detector, smt_in.secondary_df)
            tol == smt_detector.tolerance
            last(q) == q[Len(q)]
            prev(q) == q[Len(q) - 1]
            r == result.value
            two_highs == Len(pp.highs) >= 2 /\ Len(sp.highs) >= 2
            two_lows == Len(pp.lows) >= 2 /\ Len(sp.lows) >= 2
        IN  /\ r.smt_type \in {"bearish", "bullish", "None"}
            /\ r.smt_type = "bearish" => two_highs
            /\ r.smt_type = "bullish" => two_lows
            /\ (~two_highs /\ ~two_lows) => r.smt_type = "None"
            /\ r.smt_type = "None" =>
                  /\ r.strength_score = 0
                  /\ r.time_alignment_score.num = 0
                  /\ r.swing_reference_primary = 0
                  /\ r.swing_reference_secondary = 0
                  /\ r.liquidity_context_valid = FALSE

\* the primary's Low pivots alone would make a bullish divergence, but the
\* secondary has a single Low pivot, and the High pivots do not qualify
C12_Witness ==
    /\ call.op = "analyze_divergence"
    /\ result.value.smt_type = "None"
    /\ LET pp == detect_fractal_pivots(smt_detector, smt_in.primary_df)
           sp == detect_fractal_pivots(smt_detector, smt_in.secondary_df)
       IN  /\ Len(pp.lows) = 2
           /\ pp.lows[2].price < pp.lows[1].price
           /\ Len(sp.lows) = 1
           /\ Abs(pp.lows[2].index - sp.lows[1].index) <= smt_detector.tolerance
           /\ Len(pp.highs) = 1
           /\ Len(sp.highs) = 2

\* C13 as claimed: for every non-None result, timeAlignmentScore =
\* 1 - |primaryPivotIndex - secondaryPivotIndex| / tolerance lies in (0, 1]:
\* never 0 and never negative.
C13_AlignmentScoreHalfOpen ==
    (call.op = "analyze_divergence" /\ result.value.smt_type # "None") =>
        LET pp == detect_fractal_pivots(smt_detector, smt_in.primary_df)
            sp == detect_fractal_pivots(smt_detector, smt_in.secondary_df)
            tol == smt_detector.tolerance
            last(q) == q[Len(q)]
            prev(q) == q[Len(q) - 1]
            r == result.value
            gap == IF r.smt_type = "bearish"
                   THEN Abs(last(pp.highs).index - last(sp.highs).index)
                   ELSE Abs(last(pp.lows).index - last(sp.lows).index)
            score == r.time_alignment_score
        IN  /\ score.den = tol /\ tol > 0
            /\ score.num = tol - gap
            /\ score.num > 0
            /\ score.num <= score.den

\* C13 amended: for every non-None result, timeAlignmentScore =
\* 1 - |primaryPivotIndex - secondaryPivotIndex| / tolerance lies in the closed
\* interval [0, 1]: it is never negative, and it is 0 exactly when the index
\* gap equals the tolerance.
C13_AlignmentScoreClosed ==
    (call.op = "analyze_divergence" /\ result.value.smt_type # "None") =>
        LET pp == detect_fractal_pivots(smt_detector, smt_in.primary_df)
            sp == detect_fractal_pivots(smt_detector, smt_in.secondary_df)
            tol == smt_detector.tolerance
            last(q) == q[Len(q)]
            prev(q) == q[Len(q) - 1]
            r == result.value
            gap == IF r.smt_type = "bearish"
                   THEN Abs(last(pp.highs).index - last(sp.highs).index)
                   ELSE Abs(last(pp.lows).index - last(sp.lows).index)
            score == r.time_alignment_score
        IN  /\ score.den = tol /\ tol > 0
            /\ score.num = tol - gap
            /\ score.num >= 0
            /\ score.num <= score.den
            /\ score.num = 0 <=> gap = tol

\* a bearish divergence whose two latest High pivots are exactly `tolerance`
\* rows apart: the alignment check passes and the score is 0
C13_Witness ==
    /\ call.op = "analyze_divergence"
    /\ result.value.smt_type = "bearish"
    /\ smt_detector.tolerance = 3
    /\ result.value.time_alignment_score = [num |-> 0, den |-> 3]

\* C14: extractPivots emits exactly the confirmed pivots: 0-based row i is a
\* High (Low) pivot iff w <= i < len - w and its high (low) equals the maximum
\* (minimum) over the rows i-w..i+w; the pivots come in row order with the
\* row's price; no row within w of either end is emitted; and a re-run on the
\* same series yields the identical lists.
C14_ExactlyConfirmedPivots ==
    /\ [](call.op = "detect_fractal_pivots" =>
            LET df == call.df
                w == smt_detector.pivot_window
                n == Len(df)
                confirmed(i) == w <= i /\ i < n - w
                high_at(i) == \A j \in (i - w)..(i + w) : df[j + 1].high <= df[i + 1].high
                low_at(i) == \A j \in (i - w)..(i + w) : df[j + 1].low >= df[i + 1].low
                hs == result.pivots.highs
                ls == result.pivots.lows
            IN  /\ {hs[k].index : k \in 1..Len(hs)}
                      = {i \in 0..(n - 1) : confirmed(i) /\ high_at(i)}
                /\ {ls[k].index : k \in 1..Len(ls)}
                      = {i \in 0..(n - 1) : confirmed(i) /\ low_at(i)}
                /\ \A k \in 1..Len(hs) :
                      /\ hs[k].price = df[hs[k].index + 1].high
                      /\ k > 1 => hs[k - 1].index < hs[k].index
                /\ \A k \in 1..Len(ls) :
                      /\ ls[k].price = df[ls[k].index + 1].low
                      /\ k > 1 => ls[k - 1].index < ls[k].index
                /\ \A k \in 1..Len(hs) : hs[k].index >= w /\ hs[k].index <= n - 1 - w
                /\ \A k \in 1..Len(ls) : ls[k].index >= w /\ ls[k].index <= n - 1 - w)
    /\ [][ ( /\ call.op = "detect_fractal_pivots"
             /\ call'.op = "detect_fractal_pivots"
             /\ call'.df = call.df )
           => result' = result ]_vars

\* a series whose lows fall all the way: its last row holds the lowest low
\* and is no pivot, while its highs have two confirmed pivots
C14_Witness ==
    /\ call.op = "detect_fractal_pivots"
    /\ smt_detector.pivot_window = 2
    /\ result.pivots.lows = <<>>
    /\ Len(result.pivots.highs) = 2
    /\ \A k \in 1..(Len(call.df) - 1) : call.df[k + 1].low < call.df[k].low

\* C20: when the bearish condition on High pivots holds with aligned indices,
\* analyzeDivergence returns Bearish, also when the bullish condition on Low
\* pivots holds as well; when the bearish structure holds but its index gap
\* exceeds the tolerance, the bullish check is still evaluated and Bullish is
\* returned if it holds.
C20_BearishFirstThenBullish ==
    call.op = "analyze_divergence" =>
        LET pp == detect_fractal_pivots(smt_detector, smt_in.primary_df)
            sp == detect_fractal_pivots(smt_detector, smt_in.secondary_df)
            tol == smt_detector.tolerance
            last(q) == q[Len(q)]
            prev(q) == q[Len(q) - 1]
            bear_structure ==
                /\ Len(pp.highs) >= 2 /\ Len(sp.highs) >= 2
                /\ last(pp.highs).price > prev(pp.highs).price
                /\ last(sp.highs).price <= prev(sp.highs).price
            bear_aligned == Abs(last(pp.highs).index - last(sp.highs).index) <= tol
            bullish == /\ Len(pp.lows) >= 2 /\ Len(sp.lows) >= 2
                       /\ last(pp.lows).price < prev(pp.lows).price
                       /\ last(sp.lows).price >= prev(sp.lows).price
                       /\ Abs(last(pp.lows).index - last(sp.lows).index) <= tol
        IN  /\ (bear_structure /\ bear_aligned) =>
                  /\ result.value.smt_type = "bearish"
                  /\ result.value.swing_reference_primary = last(pp.highs).price
                  /\ result.value.swing_reference_secondary = last(sp.highs).price
            /\ (bear_structure /\ ~bear_aligned /\ bullish) =>
                  /\ result.value.smt_type = "bullish"
                  /\ result.value.swing_reference_primary = last(pp.lows).price
                  /\ result.value.swing_reference_secondary = last(sp.lows).price

\* the bearish structure holds with High pivots further apart than the
\* tolerance, and the bullish divergence was returned
C20_Witness ==
    /\ call.op = "analyze_divergence"
    /\ result.value.smt_type = "bullish"
    /\ LET pp == detect_fractal_pivots(smt_detector, smt_in.primary_df)
           sp == detect_fractal_pivots(smt_detector, smt_in.secondary_df)
       IN  /\ Len(pp.highs) >= 2 /\ Len(sp.highs) >= 2
           /\ pp.highs[Len(pp.highs)].price > pp.highs[Len(pp.highs) - 1].price
           /\ sp.highs[Len(sp.highs)].price <= sp.highs[Len(sp.highs) - 1].price
           /\ Abs(pp.highs[Len(pp.highs)].index - sp.highs[Len(sp.highs)].index)
                 > smt_detector.tolerance

----------------------------------------------------------------------------
(* More claims about the selector (SpecETS) *)

\* C15: confluence bonus: when candidate A's [fvgBottom, fvgTop] is nested
\* inside candidate B's, A's score increases by exactly 0.15 for that nesting
\* (summed over all candidates containing A, then capped at 1.0), and B
\* receives no bonus from that pair.
C15_NestedOnlyGetsBonus ==
    call.op = "select_best_setup" =>
        LET scored == scored_setups(ets, sel_in.mtf_data, sel_in.htf_bias,
                                    sel_in.htf_sweep_extreme)
            finals == _apply_confluence_bonus(scored)
            n == Len(scored)
            nested(a, b) == /\ a # b
                            /\ scored[a].fvg_bottom >= scored[b].fvg_bottom
                            /\ scored[a].fvg_top <= scored[b].fvg_top
            containers(a) == {b \in 1..n : nested(a, b)}
        IN  \A a \in 1..n :
              /\ finals[a].score
                    = min2(scored[a].score + 150000 * Cardinality(containers(a)), 1000000)
              /\ \A b \in containers(a) :
                    finals[b].confluence_score
                        = 150000 * Cardinality(containers(b) \ {a})

\* C16: a candidate's direction is Buy iff bias = Discount and Sell iff bias =
\* Premium; a timeframe yields a Buy candidate only if it has >= 10
\* observations and its latest close strictly exceeds the max high of the 4
\* bars preceding it, and a Sell candidate only if the latest close is strictly
\* below the min low of those 4 bars; a timeframe that meets the condition
\* yields the candidate.
C16_DirectionAndStructure ==
    call.op = "select_best_setup" =>
        LET bias == sel_in.htf_bias
            scored == scored_setups(ets, sel_in.mtf_data, bias,
                                    sel_in.htf_sweep_extreme)
            above(df) == \A k \in (Len(df) - 4)..(Len(df) - 1) :
                            df[Len(df)].close > df[k].high
            below(df) == \A k \in (Len(df) - 4)..(Len(df) - 1) :
                            df[Len(df)].close < df[k].low
            df_of(tf) == LET n == CHOOSE n \in 1..Len(sel_in.mtf_data) :
                                      sel_in.mtf_data[n].tf = tf
                         IN  sel_in.mtf_data[n].df
        IN  /\ \A c \in Range(scored) :
                  /\ c.type \in {"BUY", "SELL"}
                  /\ c.type = "BUY" <=> bias = "DISCOUNT"
                  /\ bias \in {"DISCOUNT", "PREMIUM"} =>
                        (c.type = "SELL" <=> bias = "PREMIUM")
                  /\ c.tf \in {sel_in.mtf_data[n].tf : n \in 1..Len(sel_in.mtf_data)}
                  /\ Len(df_of(c.tf)) >= 10
                  /\ c.type = "BUY" => above(df_of(c.tf))
                  /\ c.type = "SELL" => below(df_of(c.tf))
                  /\ c.entry = df_of(c.tf)[Len(df_of(c.tf))].close
            /\ \A n \in 1..Len(sel_in.mtf_data) :
                  LET df == sel_in.mtf_data[n].df
                  IN  ( /\ Len(df) >= 10
                        /\ \/ bias = "DISCOUNT" /\ above(df)
                           \/ bias = "PREMIUM" /\ below(df) )
                      => \E c \in Range(scored) : c.tf = sel_in.mtf_data[n].tf

\* under Discount, of three timeframes one has 9 observations with a close
\* above its 4 preceding highs, one has a close equal to the highest of them,
\* and only the third yields a candidate, a Buy
C16_Witness ==
    /\ call.op = "select_best_setup"
    /\ sel_in.htf_bias = "DISCOUNT"
    /\ Len(sel_in.mtf_data) = 3
    /\ Len(sel_in.mtf_data[1].df) = 9
    /\ sel_in.mtf_data[1].df[9].close > sel_in.mtf_data[1].df[8].high
    /\ LET df == sel_in.mtf_data[2].df
       IN  /\ Len(df) = 10
           /\ df[10].close = df[6].high
           /\ df[10].close > df[9].high
    /\ LET scored == scored_setups(ets, sel_in.mtf_data, sel_in.htf_bias,
                                   sel_in.htf_sweep_extreme)
       IN  /\ Len(scored) = 1
           /\ scored[1].type = "BUY"
           /\ scored[1].tf = sel_in.mtf_data[3].tf

----------------------------------------------------------------------------
(* More claims about the learning engine (SpecLearn) *)

----------------------------------------------------------------------------
(* Claims about the engine with its learning hook (SpecAll) *)

----------------------------------------------------------------------------
(* Claims about concurrent calls on one engine (SpecRace) *)

\* C18: when ingest on the reference timeframe runs concurrently with
\* detectSetup, the sweep check observes either the complete pre-update or the
\* complete post-update range, never a mix of old and new fields: all values
\* it read belong to one of the complete states the range went through.
C18_SweepCheckSeesOneSnapshot ==
    call.op = "_check_sweeps" =>
        \E s \in result.snaps :
            \A k \in 1..Len(result.reads) :
                result.reads[k].value = s.dealing_range[result.reads[k].field]

----------------------------------------------------------------------------
(* Claims about ties and score monotonicity (SpecETS, SpecScore) *)

\* C21: when several candidates share the greatest final score,
\* select_best_setup returns the one that comes first in the iteration order
\* of mtf_data (the lowest timeframe, as mtf_data is filled in ascending
\* order): no candidate before the returned one has its score.
C21_FirstOfTiedMaximum ==
    LET finals == _apply_confluence_bonus(
                      scored_setups(ets, sel_in.mtf_data, sel_in.htf_bias,
                                    sel_in.htf_sweep_extreme))
    IN  (call.op = "select_best_setup" /\ result.setup # NoSetup) =>
            \E k \in 1..Len(finals) :
                /\ result.setup = finals[k]
                /\ \A j \in 1..Len(finals) :
                     /\ finals[j].score <= finals[k].score
                     /\ (finals[j].score = finals[k].score => j >= k)
                     /\ (finals[j].score = finals[k].score =>
                            finals[j].tf >= result.setup.tf)

\* three candidates share the greatest score, a fourth scores less, and the
\* candidate of timeframe 1 is returned
C21_Witness ==
    LET finals == _apply_confluence_bonus(
                      scored_setups(ets, sel_in.mtf_data, sel_in.htf_bias,
                                    sel_in.htf_sweep_extreme))
    IN  /\ call.op = "select_best_setup"
        /\ result.setup # NoSetup
        /\ result.setup.tf = 1
        /\ Cardinality({j \in 1..Len(finals) :
                          finals[j].score = result.setup.score}) >= 3
        /\ \E j \in 1..Len(finals) : finals[j].score < result.setup.score

\* C22: with the weights and every other field of the candidate fixed, the
\* quality score does not decrease when the displacement magnitude grows:
\* for positive magnitudes d1 <= d2, score(d1) <= score(d2).
C22_ScoreMonotoneInDisplacement ==
    ( /\ call.op = "_calculate_quality_score"
      /\ call.prior.made
      /\ call.prior.displacement_mag.num * call.displacement_mag.den
           <= call.displacement_mag.num * call.prior.displacement_mag.den ) =>
        call.prior.score <= result.value

\* two calls on a BUY candidate, magnitude 0.25 and then 1.5: the score grows
C22_Witness ==
    /\ call.op = "_calculate_quality_score"
    /\ call.prior.made
    /\ call.prior.displacement_mag = [num |-> 1000, den |-> 4000]
    /\ call.displacement_mag = [num |-> 6000, den |-> 4000]
    /\ score_in.setup.type = "BUY"
    /\ call.prior.score < result.value

----------------------------------------------------------------------------
(* Claims about the life of a sweep (Spec, SpecAll) *)

\* C23: a detect_setup call that detects a sweep never returns a selection:
\* it records the sweep (type and price of this call) and returns only a log
\* result; so while successive prices stay outside the range every call
\* records the active sweep again and none returns a selection.
C23_SweepCallRecordsAndLogs ==
    (call.op = "detect_setup" /\ _check_sweeps(engine, call.current_price) # "None") =>
        /\ result.kind = "log"
        /\ result.sweep = _check_sweeps(engine, call.current_price)
        /\ engine.active_sweep # NoSweep
        /\ engine.active_sweep.type = result.sweep
        /\ engine.active_sweep.price = call.current_price

\* C24: while a sweep is active the dealing range has been computed
\* (high >= low, not both 0) and the bias is PREMIUM or DISCOUNT; so a
\* detect_setup call that gets as far as the scan of the execution
\* timeframes, where the selector is invoked, never has an unset bias.
C24_ActiveSweepHasRangeAndBias ==
    /\ engine.active_sweep # NoSweep =>
         /\ engine.dealing_range.high >= engine.dealing_range.low
         /\ ~(engine.dealing_range.high = 0 /\ engine.dealing_range.low = 0)
         /\ engine.bias \in {"PREMIUM", "DISCOUNT"}
    /\ ( /\ call.op = "detect_setup"
         /\ \/ result.kind = "action"
            \/ result = [kind |-> "raise", error |-> "NameError"] ) =>
         engine.bias \in {"PREMIUM", "DISCOUNT"}

\* a sweep above a computed range is active, the bias is DISCOUNT, and the
\* latest call went on to the scan of the execution timeframes
C24_Witness ==
    /\ engine.active_sweep # NoSweep
    /\ engine.active_sweep.type = "BUY_SIDE"
    /\ engine.dealing_range.high > engine.dealing_range.low
    /\ engine.bias = "DISCOUNT"
    /\ call.op = "detect_setup"
    /\ result = [kind |-> "raise", error |-> "NameError"]

\* C25: an active sweep is cleared only by a successful selection:
\* update_data, record_trade_outcome, get_adaptive_risk and a detect_setup
\* call that returns None leave active_sweep as it was, and a step that
\* clears an active sweep is a detect_setup call returning an action.
C25_SweepClearedOnlyBySelection ==
    [][ /\ ( \/ call'.op \in {"update_data", "record_trade_outcome", "get_adaptive_risk"}
             \/ (call'.op = "detect_setup" /\ result'.kind = "None") ) =>
             engine'.active_sweep = engine.active_sweep
        /\ (engine.active_sweep # NoSweep /\ engine'.active_sweep = NoSweep) =>
             (call'.op = "detect_setup" /\ result'.kind = "action")
      ]_vars

\* a sweep at 1030 is still active after the reference timeframe took its
\* 21st observation and the range was computed again
C25_Witness ==
    /\ call.op = "update_data"
    /\ call.timeframe = 15
    /\ Len(engine.mtf_history[15]) = htf_window + 1
    /\ engine.active_sweep # NoSweep
    /\ engine.active_sweep.price = 1030
    /\ engine.dealing_range.high < 1020

----------------------------------------------------------------------------
(* Claims about the MT5Manager (SpecMT5) *)

\* C27: every write to connected, account_info and credentials and every
\* call of attempt_login is made by the thread that holds the manager lock;
\* a thread is inside its with block exactly while it holds the lock, so the
\* poller's refresh / reconnect and a login request are never inside their
\* critical sections together; and the holder of the lock never waits for
\* the lock itself: it always has a next step, up to the release.
C27_WritesUnderLock ==
    /\ [](\A t \in Threads :
            (mt5_threads[t].pc \in {"info", "store", "lost", "reconnect", "release",
                                    "credentials", "attempt", "respond"})
              <=> (mt5_manager.lock = t))
    /\ [](Cardinality({t \in Threads :
                         mt5_threads[t].pc \in {"info", "store", "lost", "reconnect",
                                                "release", "credentials", "attempt",
                                                "respond"}}) <= 1)
    /\ [][ ( \/ mt5_manager'.connected # mt5_manager.connected
             \/ mt5_manager'.account_info # mt5_manager.account_info
             \/ mt5_manager'.credentials # mt5_manager.credentials
             \/ call'.op = "attempt_login" ) =>
             (call'.by \in Threads /\ mt5_manager.lock = call'.by) ]_vars
    /\ [](mt5_manager.lock = "poller" =>
            ENABLED (PollAccountInfo \/ PollStore \/ PollLost \/ PollReconnect
                     \/ PollRelease))
    /\ [](mt5_manager.lock \in Requests =>
            ENABLED (LoginCredentials \/ LoginAttempt \/ LoginRespond))

\* the poller is about to reconnect under the lock while both login
\* requests wait for the lock
C27_Witness ==
    /\ mt5_manager.lock = "poller"
    /\ mt5_threads["poller"].pc = "reconnect"
    /\ \A r \in Requests : mt5_threads[r].pc = "acquire"

\* C28: connected becomes true only in an attempt_login that succeeded, with
\* non-empty credentials; the poller polls only while connected; when
\* account_info fails it sets connected false and makes one reconnect
\* attempt, after which it leaves the with block; a failed attempt leaves
\* connected false, so the poller makes no further attempt until a login
\* request has set connected again.
C28_ConnectedOnlyAfterLogin ==
    /\ [](mt5_manager.connected => ~mt5_manager.credentials.empty)
    /\ [](mt5_threads["poller"].pc \in {"info", "store", "lost"} =>
            mt5_manager.connected)
    /\ [][ /\ (~mt5_manager.connected /\ mt5_manager'.connected) =>
                /\ call'.op = "attempt_login"
                /\ result' = [kind |-> "bool", value |-> TRUE]
                /\ ~mt5_manager'.credentials.empty
           /\ call'.op = "poll_status:lost" =>
                /\ ~mt5_manager'.connected
                /\ mt5_threads'["poller"].pc = "reconnect"
           /\ (call'.op = "attempt_login" /\ call'.by = "poller") =>
                /\ mt5_threads["poller"].pc = "reconnect"
                /\ ~mt5_manager.connected
                /\ mt5_threads'["poller"].pc \in {"release", "dead"}
                /\ (result' # [kind |-> "bool", value |-> TRUE] =>
                      ~mt5_manager'.connected)
         ]_vars

\* after a successful login the poller saw account_info fail, its one
\* reconnect attempt failed, and it is back at the head of its loop with
\* connected false
C28_Witness ==
    /\ ~mt5_manager.connected
    /\ ~mt5_manager.credentials.empty
    /\ mt5_manager.account_info = "info"
    /\ mt5_threads["poller"].pc = "sleep"
    /\ call = [op |-> "poll_status:release", by |-> "poller"]
    /\ mt5_manager.logs = 5

====
